---- MODULE Spec2Model ----
(***************************************************************************)
(* Model of the Jira MCP server (src/server.ts, src/load-env.ts).          *)
(*                                                                         *)
(* The process seeds its environment from a .env file, checks the three    *)
(* required Jira variables, registers ten tools and connects a stdio       *)
(* transport.  Every tool handler builds one HTTP request, awaits the      *)
(* response and reshapes it into a tool result.                            *)
(*                                                                         *)
(* JavaScript strings are TLA+ strings; a JavaScript value of unknown      *)
(* type (a tool argument, a JSON value) is a tagged record.                *)
(***************************************************************************)
EXTENDS Integers, Sequences, FiniteSets, TLC

\* ------------------------------------------------------------------------
\* Bounds of the model
\* ------------------------------------------------------------------------

\* number of tool invocations the transport may have in flight at once
MaxInFlight == 2

\* ------------------------------------------------------------------------
\* JavaScript strings
\* ------------------------------------------------------------------------

CharAt(s, i) == SubSeq(s, i, i)

\* String.prototype.startsWith
StartsWith(s, p) == Len(s) >= Len(p) /\ SubSeq(s, 1, Len(p)) = p

\* String.prototype.includes
Contains(s, p) == \E i \in 1..(Len(s) - Len(p) + 1) : SubSeq(s, i, i + Len(p) - 1) = p

\* the white space String.prototype.trim removes
IsSpace(c) == c \in {" ", "\t", "\n", "\r"}

RECURSIVE TrimStart(_)
TrimStart(s) ==
  IF Len(s) > 0 /\ IsSpace(CharAt(s, 1)) THEN TrimStart(SubSeq(s, 2, Len(s))) ELSE s

RECURSIVE TrimEnd(_)
TrimEnd(s) ==
  IF Len(s) > 0 /\ IsSpace(CharAt(s, Len(s))) THEN TrimEnd(SubSeq(s, 1, Len(s) - 1)) ELSE s

\* String.prototype.trim
Trim(s) == TrimEnd(TrimStart(s))

\* index of the first occurrence of the character c in s, 0 when there is none
RECURSIVE IndexFrom(_, _, _)
IndexFrom(s, c, i) ==
  IF i > Len(s) THEN 0
  ELSE IF CharAt(s, i) = c THEN i
  ELSE IndexFrom(s, c, i + 1)

IndexOf(s, c) == IndexFrom(s, c, 1)

\* String.prototype.split on a one-character separator: a sequence of strings
RECURSIVE Split(_, _)
Split(s, c) ==
  LET i == IndexOf(s, c)
  IN IF i = 0 THEN <<s>>
     ELSE <<SubSeq(s, 1, i - 1)>> \o Split(SubSeq(s, i + 1, Len(s)), c)

\* Array.prototype.join
RECURSIVE Join(_, _)
Join(parts, sep) ==
  IF Len(parts) = 0 THEN ""
  ELSE IF Len(parts) = 1 THEN parts[1]
  ELSE parts[1] \o sep \o Join(Tail(parts), sep)

Digit(d) == CharAt("0123456789", d + 1)

\* String(n) for a non-negative integer
RECURSIVE NatToString(_)
NatToString(n) == IF n < 10 THEN Digit(n) ELSE NatToString(n \div 10) \o Digit(n % 10)

\* String(n) for an integer
IntToString(n) == IF n < 0 THEN "-" \o NatToString(0 - n) ELSE NatToString(n)

\* ------------------------------------------------------------------------
\* JavaScript values
\* ------------------------------------------------------------------------

Undef == [t |-> "undef"]
Null == [t |-> "null"]
Str(s) == [t |-> "str", s |-> s]
\* the integer n
Num(n) == [t |-> "num", n |-> n, int |-> TRUE]
\* the non-integer number n + 0.5
Frac(n) == [t |-> "num", n |-> n, int |-> FALSE]
Bool(b) == [t |-> "bool", b |-> b]
Arr(a) == [t |-> "arr", a |-> a]
\* an object: o is the sequence of its properties [k, v], in insertion order
Obj(o) == [t |-> "obj", o |-> o]
KV(k, v) == [k |-> k, v |-> v]

IsStr(v) == v.t = "str"
IsNum(v) == v.t = "num"

\* ToBoolean: the values `if (v)`, `!v` and `v || d` take as true
Truthy(v) ==
  CASE v.t = "undef" -> FALSE
    [] v.t = "null" -> FALSE
    [] v.t = "str" -> v.s # ""
    [] v.t = "num" -> ~(v.int /\ v.n = 0)
    [] v.t = "bool" -> v.b
    [] OTHER -> TRUE

\* v ?? d
Nullish(v) == v.t \in {"undef", "null"}
Coalesce(v, d) == IF Nullish(v) THEN d ELSE v

\* v || d
OrElse(v, d) == IF Truthy(v) THEN v ELSE d

\* o.k for an o that is neither null nor undefined: properties of values
\* other than objects are undefined (but for the length of a string or array)
Prop(v, k) ==
  CASE v.t = "obj" ->
         IF \E i \in 1..Len(v.o) : v.o[i].k = k
         THEN v.o[CHOOSE i \in 1..Len(v.o) : v.o[i].k = k].v
         ELSE Undef
    [] v.t = "arr" /\ k = "length" -> Num(Len(v.a))
    [] v.t = "str" /\ k = "length" -> Num(Len(v.s))
    [] OTHER -> Undef

\* o?.k
OptProp(v, k) == IF Nullish(v) THEN Undef ELSE Prop(v, k)

\* String(v), the conversion a template literal applies
RECURSIVE ToStr(_)
ToStr(v) ==
  CASE v.t = "undef" -> "undefined"
    [] v.t = "null" -> "null"
    [] v.t = "str" -> v.s
    [] v.t = "num" -> IF v.int THEN IntToString(v.n) ELSE IntToString(v.n) \o ".5"
    [] v.t = "bool" -> IF v.b THEN "true" ELSE "false"
    [] v.t = "arr" ->
         Join([i \in 1..Len(v.a) |-> IF Nullish(v.a[i]) THEN "" ELSE ToStr(v.a[i])], ",")
    [] OTHER -> "[object Object]"

\* ------------------------------------------------------------------------
\* The process environment and the .env file (load-env.ts)
\* ------------------------------------------------------------------------

\* process.env[key]: the value of a variable, undefined when it is not set
EnvGet(e, key) == IF key \in DOMAIN e THEN Str(e[key]) ELSE Undef

\* process.env[key] = value
EnvSet(e, key, value) ==
  [k \in (DOMAIN e) \cup {key} |-> IF k = key THEN value ELSE e[k]]

\* the for loop over possiblePaths: the content of the first candidate that
\* can be read, '' when none can.  A candidate is [ok, content].
RECURSIVE ReadFirst(_)
ReadFirst(paths) ==
  IF Len(paths) = 0 THEN ""
  ELSE IF paths[1].ok THEN paths[1].content
  ELSE ReadFirst(Tail(paths))

\* the body of the forEach over the lines of the file
ApplyLine(e, line) ==
  LET trimmedLine == Trim(line)
      parts == Split(trimmedLine, "=")
      key == parts[1]
      valueParts == Tail(parts)
      value == Trim(Join(valueParts, "="))
  IN IF trimmedLine # "" /\ ~StartsWith(trimmedLine, "#")
        /\ key # "" /\ Len(valueParts) > 0
        /\ ~Truthy(EnvGet(e, key))
     THEN EnvSet(e, key, value)
     ELSE e

RECURSIVE ApplyLines(_, _)
ApplyLines(e, lines) ==
  IF Len(lines) = 0 THEN e
  ELSE ApplyLines(ApplyLine(e, lines[1]), Tail(lines))

\* loadEnvFile: the environment after the call, given the outcome of reading
\* each of the five candidate paths
LoadedEnv(e, paths) ==
  LET envContent == ReadFirst(paths)
  IN IF envContent = "" THEN e ELSE ApplyLines(e, Split(envContent, "\n"))

\* what loadEnvFile writes to the error stream
LoadEnvLog(paths) ==
  IF ReadFirst(paths) = ""
  THEN <<"Could not find .env file in any of the expected locations">>
  ELSE <<>>

\* ------------------------------------------------------------------------
\* The tools and their input schemas (mcp.registerTool)
\* ------------------------------------------------------------------------

\* the tools in the order server.ts registers them
ToolNames ==
  << "get_jira_issue", "list_jira_projects", "get_jira_project",
     "get_project_statuses", "search_jira_issues", "list_project_issues",
     "get_jira_issue_comments", "list_boards", "list_board_sprints",
     "list_sprint_issues" >>

Tools == {ToolNames[i] : i \in 1..Len(ToolNames)}

\* z.string() and z.string().optional()
ZString(opt) == [kind |-> "string", opt |-> opt]
\* z.number().int() with the bounds of .min() and .max() when they are given
ZInt(opt, hasMin, min, hasMax, max) ==
  [kind |-> "int", opt |-> opt, hasMin |-> hasMin, min |-> min, hasMax |-> hasMax, max |-> max]
\* z.enum([...])
ZEnum(opt, values) == [kind |-> "enum", opt |-> opt, values |-> values]

\* StartAtSchema without .min(0)
StartAtSchemaNoMin == ZInt(TRUE, FALSE, 0, FALSE, 0)

\* startAt: z.number().int().min(0).optional()
StartAtSchema == ZInt(TRUE, TRUE, 0, FALSE, 0)
\* maxResults: z.number().int().min(1).max(100).optional()
MaxResultsSchema == ZInt(TRUE, TRUE, 1, TRUE, 100)

\* the inputSchema of each tool
InputSchema(tool) ==
  CASE tool = "get_jira_issue" -> [issueKey |-> ZString(FALSE)]
    [] tool = "list_jira_projects" ->
         [query |-> ZString(TRUE), startAt |-> StartAtSchema, maxResults |-> MaxResultsSchema]
    [] tool = "get_jira_project" -> [projectIdOrKey |-> ZString(FALSE)]
    [] tool = "get_project_statuses" -> [projectIdOrKey |-> ZString(FALSE)]
    [] tool = "search_jira_issues" ->
         [jql |-> ZString(FALSE), startAt |-> StartAtSchema,
          maxResults |-> MaxResultsSchema, fields |-> ZString(TRUE)]
    [] tool = "list_project_issues" ->
         [projectKey |-> ZString(FALSE), jqlTail |-> ZString(TRUE),
          startAt |-> StartAtSchema, maxResults |-> MaxResultsSchema]
    [] tool = "get_jira_issue_comments" ->
         [issueIdOrKey |-> ZString(FALSE), startAt |-> StartAtSchema,
          maxResults |-> MaxResultsSchema]
    [] tool = "list_boards" ->
         [type |-> ZEnum(TRUE, {"scrum", "kanban"}), projectKeyOrId |-> ZString(TRUE),
          startAt |-> StartAtSchema, maxResults |-> MaxResultsSchema]
    [] tool = "list_board_sprints" ->
         [boardId |-> ZInt(FALSE, FALSE, 0, FALSE, 0),
          state |-> ZEnum(TRUE, {"active", "future", "closed"}),
          startAt |-> StartAtSchema, maxResults |-> MaxResultsSchema]
    [] tool = "list_sprint_issues" ->
         [sprintId |-> ZInt(FALSE, FALSE, 0, FALSE, 0), startAt |-> StartAtSchema,
          maxResults |-> MaxResultsSchema, jql |-> ZString(TRUE)]

\* args.k: the value of an argument, undefined when the caller left it out
Arg(args, k) == IF k \in DOMAIN args THEN args[k] ELSE Undef

\* whether a schema accepts a value
Accepts(z, v) ==
  IF v.t = "undef" THEN z.opt
  ELSE CASE z.kind = "string" -> v.t = "str"
         [] z.kind = "int" ->
              /\ v.t = "num"
              /\ v.int
              /\ (z.hasMin => v.n >= z.min)
              /\ (z.hasMax => v.n <= z.max)
         [] z.kind = "enum" -> v.t = "str" /\ v.s \in z.values

\* whether the arguments of an invocation pass the tool's inputSchema
ValidArgs(tool, args) ==
  \A k \in DOMAIN InputSchema(tool) : Accepts(InputSchema(tool)[k], Arg(args, k))

\* the arguments the handler receives: the declared ones the caller supplied
ParsedArgs(tool, args) ==
  [k \in (DOMAIN args) \cap (DOMAIN InputSchema(tool)) |-> args[k]]

\* ------------------------------------------------------------------------
\* URL and JSON encoding
\* ------------------------------------------------------------------------

\* the printable ASCII characters in code order: from the space (code 32) to
\* the underscore (95), and from a (97) to the tilde (126)
AsciiLow == " !\"#$%&'()*+,-./0123456789:;<=>?@ABCDEFGHIJKLMNOPQRSTUVWXYZ[\\]^_"
AsciiHigh == "abcdefghijklmnopqrstuvwxyz{|}~"

AlphaNum == "0123456789ABCDEFGHIJKLMNOPQRSTUVWXYZabcdefghijklmnopqrstuvwxyz"

\* the code of an ASCII character (the control characters of the model are
\* the tab, the line feed and the carriage return)
CharCode(c) ==
  CASE c = "\t" -> 9
    [] c = "\n" -> 10
    [] c = "\r" -> 13
    [] IndexOf(AsciiLow, c) > 0 -> 31 + IndexOf(AsciiLow, c)
    [] OTHER -> 96 + IndexOf(AsciiHigh, c)

HexDigit(d) == CharAt("0123456789ABCDEF", d + 1)

\* %XX
PercentEncode(c) == "%" \o HexDigit(CharCode(c) \div 16) \o HexDigit(CharCode(c) % 16)

\* the application/x-www-form-urlencoded serialisation of one character
FormEncodeChar(c) ==
  IF IndexOf(AlphaNum, c) > 0 \/ c \in {"*", "-", ".", "_"} THEN c
  ELSE IF c = " " THEN "+"
  ELSE PercentEncode(c)

RECURSIVE FormEncode(_)
FormEncode(s) ==
  IF Len(s) = 0 THEN "" ELSE FormEncodeChar(CharAt(s, 1)) \o FormEncode(SubSeq(s, 2, Len(s)))

\* encodeURIComponent of one character
UriEncodeChar(c) ==
  IF IndexOf(AlphaNum, c) > 0 \/ c \in {"-", "_", ".", "!", "~", "*", "'", "(", ")"} THEN c
  ELSE PercentEncode(c)

\* encodeURIComponent
RECURSIVE EncodeURIComponent(_)
EncodeURIComponent(s) ==
  IF Len(s) = 0 THEN ""
  ELSE UriEncodeChar(CharAt(s, 1)) \o EncodeURIComponent(SubSeq(s, 2, Len(s)))

\* URLSearchParams: a sequence of <<name, value>> pairs.  params.set(name,
\* value) replaces the value of a name that is present and appends otherwise.
ParamsSet(params, name, value) ==
  IF \E i \in 1..Len(params) : params[i][1] = name
  THEN [i \in 1..Len(params) |-> IF params[i][1] = name THEN <<name, value>> ELSE params[i]]
  ELSE Append(params, <<name, value>>)

\* params.toString()
ParamsToString(params) ==
  Join([i \in 1..Len(params) |-> FormEncode(params[i][1]) \o "=" \o FormEncode(params[i][2])],
       "&")

\* `if (args.k) params.set(k, args.k)` for a string argument
SetIfTruthy(params, args, k) ==
  IF Truthy(Arg(args, k)) THEN ParamsSet(params, k, ToStr(Arg(args, k))) ELSE params

\* SetIfNumber without the typeof test
SetAlways(params, args, k) == ParamsSet(params, k, ToStr(Arg(args, k)))

\* SetIfNumber with `if (args.k)` in place of the typeof test
SetIfNumberTruthy(params, args, k) ==
  IF Truthy(Arg(args, k)) THEN ParamsSet(params, k, ToStr(Arg(args, k))) ELSE params

\* `if (typeof args.k === "number") params.set(k, String(args.k))`
SetIfNumber(params, args, k) ==
  IF IsNum(Arg(args, k)) THEN ParamsSet(params, k, ToStr(Arg(args, k))) ELSE params

\* `${params.toString() ? `?${params.toString()}` : ""}`
QuerySuffix(params) ==
  IF ParamsToString(params) # "" THEN "?" \o ParamsToString(params) ELSE ""

\* JSON.stringify of one character of a string
JsonEscapeChar(c) ==
  CASE c = "\"" -> "\\\""
    [] c = "\\" -> "\\\\"
    [] c = "\n" -> "\\n"
    [] c = "\r" -> "\\r"
    [] c = "\t" -> "\\t"
    [] OTHER -> c

RECURSIVE JsonEscape(_)
JsonEscape(s) ==
  IF Len(s) = 0 THEN "" ELSE JsonEscapeChar(CharAt(s, 1)) \o JsonEscape(SubSeq(s, 2, Len(s)))

\* JSON.stringify of a string
JsonString(s) == "\"" \o JsonEscape(s) \o "\""

\* JSON.stringify of an array of strings
JsonStringArray(a) == "[" \o Join([i \in 1..Len(a) |-> JsonString(a[i])], ",") \o "]"

\* JSON.stringify of the body {jql, startAt, maxResults, fields} of a search
SearchBody(jql, startAt, maxResults, fields) ==
  "{\"jql\":" \o JsonString(jql)
    \o ",\"startAt\":" \o ToStr(startAt)
    \o ",\"maxResults\":" \o ToStr(maxResults)
    \o ",\"fields\":" \o JsonStringArray(fields) \o "}"

\* the fields a search asks for when the caller names none
DefaultFields == <<"key", "summary", "status", "assignee", "priority", "issuetype", "updated">>

\* Array.prototype.filter(Boolean) on an array of strings
RECURSIVE FilterNonEmpty(_)
FilterNonEmpty(a) ==
  IF Len(a) = 0 THEN <<>>
  ELSE IF a[1] # "" THEN <<a[1]>> \o FilterNonEmpty(Tail(a))
  ELSE FilterNonEmpty(Tail(a))

\* SearchFields without .map(s => s.trim())
SearchFieldsUntrimmed(args) ==
  FilterNonEmpty(
    IF Truthy(Arg(args, "fields")) THEN Split(Arg(args, "fields").s, ",")
    ELSE DefaultFields)

\* body.fields of search_jira_issues
SearchFields(args) ==
  FilterNonEmpty(
    IF Truthy(Arg(args, "fields"))
    THEN LET parts == Split(Arg(args, "fields").s, ",")
         IN [i \in 1..Len(parts) |-> Trim(parts[i])]
    ELSE DefaultFields)

\* JSON.stringify of a value
RECURSIVE JsonStringify(_)
JsonStringify(v) ==
  CASE v.t = "null" -> "null"
    [] v.t = "undef" -> "null"
    [] v.t = "str" -> JsonString(v.s)
    [] v.t = "num" -> ToStr(v)
    [] v.t = "bool" -> ToStr(v)
    [] v.t = "arr" -> "[" \o Join([i \in 1..Len(v.a) |-> JsonStringify(v.a[i])], ",") \o "]"
    [] v.t = "obj" ->
         "{" \o Join([i \in 1..Len(v.o) |->
                        JsonString(v.o[i].k) \o ":" \o JsonStringify(v.o[i].v)], ",") \o "}"

\* ------------------------------------------------------------------------
\* Request construction
\* ------------------------------------------------------------------------

\* the arguments of fetch(url, { method, headers, body })
GetRequest(url, headers) == [method |-> "GET", url |-> url, headers |-> headers, body |-> ""]
PostRequest(url, headers, body) ==
  [method |-> "POST", url |-> url, headers |-> headers, body |-> body]

\* the URLSearchParams each GET tool fills from its optional arguments
QueryParams(tool, args) ==
  CASE tool = "list_jira_projects" ->
         SetIfNumber(SetIfNumber(SetIfTruthy(<<>>, args, "query"),
                                 args, "startAt"), args, "maxResults")
    [] tool = "get_jira_issue_comments" ->
         SetIfNumber(SetIfNumber(<<>>, args, "startAt"), args, "maxResults")
    [] tool = "list_boards" ->
         SetIfNumber(SetIfNumber(SetIfTruthy(SetIfTruthy(<<>>, args, "type"),
                                             args, "projectKeyOrId"),
                                 args, "startAt"), args, "maxResults")
    [] tool = "list_board_sprints" ->
         SetIfNumber(SetIfNumber(SetIfTruthy(<<>>, args, "state"),
                                 args, "startAt"), args, "maxResults")
    [] tool = "list_sprint_issues" ->
         SetIfTruthy(SetIfNumber(SetIfNumber(<<>>, args, "startAt"),
                                 args, "maxResults"), args, "jql")
    [] OTHER -> <<>>

\* ProjectJql with the jqlTail appended whenever it is not undefined
ProjectJqlDefined(args) ==
  "project=" \o ToStr(Arg(args, "projectKey"))
    \o (IF Arg(args, "jqlTail") # Undef THEN " " \o ToStr(Arg(args, "jqlTail")) ELSE "")

\* the jql list_project_issues searches for
ProjectJql(args) ==
  "project=" \o ToStr(Arg(args, "projectKey"))
    \o (IF Truthy(Arg(args, "jqlTail")) THEN " " \o ToStr(Arg(args, "jqlTail")) ELSE "")

\* the request a handler passes to fetch; base is the value of JIRA_URL and
\* headers the value of getJiraHeaders()
BuildRequest(tool, args, base, headers) ==
  CASE tool = "get_jira_issue" ->
         GetRequest(ToStr(base) \o "/rest/api/3/issue/" \o ToStr(Arg(args, "issueKey")),
                    headers)
    [] tool = "list_jira_projects" ->
         GetRequest(ToStr(base) \o "/rest/api/3/project/search"
                      \o QuerySuffix(QueryParams(tool, args)),
                    headers)
    [] tool = "get_jira_project" ->
         GetRequest(ToStr(base) \o "/rest/api/3/project/"
                      \o EncodeURIComponent(ToStr(Arg(args, "projectIdOrKey"))),
                    headers)
    [] tool = "get_project_statuses" ->
         GetRequest(ToStr(base) \o "/rest/api/3/project/"
                      \o EncodeURIComponent(ToStr(Arg(args, "projectIdOrKey")))
                      \o "/statuses",
                    headers)
    [] tool = "search_jira_issues" ->
         PostRequest(ToStr(base) \o "/rest/api/3/search", headers,
                     SearchBody(ToStr(Arg(args, "jql")),
                                Coalesce(Arg(args, "startAt"), Num(0)),
                                Coalesce(Arg(args, "maxResults"), Num(50)),
                                SearchFields(args)))
    [] tool = "list_project_issues" ->
         PostRequest(ToStr(base) \o "/rest/api/3/search", headers,
                     SearchBody(ProjectJql(args),
                                Coalesce(Arg(args, "startAt"), Num(0)),
                                Coalesce(Arg(args, "maxResults"), Num(50)),
                                DefaultFields))
    [] tool = "get_jira_issue_comments" ->
         GetRequest(ToStr(base) \o "/rest/api/3/issue/"
                      \o EncodeURIComponent(ToStr(Arg(args, "issueIdOrKey")))
                      \o "/comment" \o QuerySuffix(QueryParams(tool, args)),
                    headers)
    [] tool = "list_boards" ->
         GetRequest(ToStr(base) \o "/rest/agile/1.0/board"
                      \o QuerySuffix(QueryParams(tool, args)),
                    headers)
    [] tool = "list_board_sprints" ->
         GetRequest(ToStr(base) \o "/rest/agile/1.0/board/" \o ToStr(Arg(args, "boardId"))
                      \o "/sprint" \o QuerySuffix(QueryParams(tool, args)),
                    headers)
    [] tool = "list_sprint_issues" ->
         GetRequest(ToStr(base) \o "/rest/agile/1.0/sprint/" \o ToStr(Arg(args, "sprintId"))
                      \o "/issue" \o QuerySuffix(QueryParams(tool, args)),
                    headers)

\* ------------------------------------------------------------------------
\* Tool results
\* ------------------------------------------------------------------------

TextContent(text) == <<[type |-> "text", text |-> text]>>

\* ErrorResult without `isError: true`
ErrorResultUnflagged(text) == [content |-> TextContent(text)]

\* { content: [...], isError: true }
ErrorResult(text) == [content |-> TextContent(text), isError |-> TRUE]

\* { content: [...], structuredContent: {...} }
SuccessResult(text, sc) == [content |-> TextContent(text), structuredContent |-> sc]

\* the outcome of the code between `await response.json()` and the return
Ok(r) == [throws |-> FALSE, result |-> r]
Throw(m) == [throws |-> TRUE, message |-> m]

\* the message of the TypeError a property read of null or undefined raises
TypeErrorRead(v, k) == "Cannot read properties of " \o ToStr(v) \o " (reading '" \o k \o "')"

\* the text of the result for a response that is not ok, up to the status
FailedPrefix(tool, args) ==
  CASE tool = "get_jira_issue" ->
         "Failed to fetch Jira issue " \o ToStr(Arg(args, "issueKey")) \o ": "
    [] tool = "list_jira_projects" -> "Failed to list projects: "
    [] tool = "get_jira_project" ->
         "Failed to get project " \o ToStr(Arg(args, "projectIdOrKey")) \o ": "
    [] tool = "get_project_statuses" ->
         "Failed to get statuses for " \o ToStr(Arg(args, "projectIdOrKey")) \o ": "
    [] tool = "search_jira_issues" -> "Failed to search issues: "
    [] tool = "list_project_issues" -> "Failed to list project issues: "
    [] tool = "get_jira_issue_comments" ->
         "Failed to get comments for " \o ToStr(Arg(args, "issueIdOrKey")) \o ": "
    [] tool = "list_boards" -> "Failed to list boards: "
    [] tool = "list_board_sprints" ->
         "Failed to list sprints for board " \o ToStr(Arg(args, "boardId")) \o ": "
    [] tool = "list_sprint_issues" -> "Failed to list sprint issues: "

\* NotOkResult without the body of the response
NotOkResultNoBody(tool, args, status, statusText, errorText) ==
  ErrorResult(FailedPrefix(tool, args) \o IntToString(status) \o " " \o statusText)

\* the result of the `if (!response.ok)` branch
NotOkResult(tool, args, status, statusText, errorText) ==
  ErrorResult(FailedPrefix(tool, args) \o IntToString(status) \o " " \o statusText
                \o "\n" \o errorText)

\* the text of the result of the catch block, up to the message
CaughtPrefix(tool, args) ==
  CASE tool = "get_jira_issue" ->
         "Error fetching Jira issue " \o ToStr(Arg(args, "issueKey")) \o ": "
    [] tool = "list_jira_projects" -> "Error listing projects: "
    [] tool = "get_jira_project" ->
         "Error getting project " \o ToStr(Arg(args, "projectIdOrKey")) \o ": "
    [] tool = "get_project_statuses" ->
         "Error getting project statuses for " \o ToStr(Arg(args, "projectIdOrKey")) \o ": "
    [] tool = "search_jira_issues" -> "Error searching issues: "
    [] tool = "list_project_issues" ->
         "Error listing issues for " \o ToStr(Arg(args, "projectKey")) \o ": "
    [] tool = "get_jira_issue_comments" ->
         "Error getting comments for " \o ToStr(Arg(args, "issueIdOrKey")) \o ": "
    [] tool = "list_boards" -> "Error listing boards: "
    [] tool = "list_board_sprints" ->
         "Error listing sprints for board " \o ToStr(Arg(args, "boardId")) \o ": "
    [] tool = "list_sprint_issues" -> "Error listing sprint issues: "

\* the result of the catch block for an exception with the given message
CaughtResult(tool, args, message) == ErrorResult(CaughtPrefix(tool, args) \o message)

\* ------------------------------------------------------------------------
\* Reshaping a parsed 2xx body
\* ------------------------------------------------------------------------

\* StripTags without the g flag: the first '<' up to the next '>' is removed
StripTagsOnce(s) ==
  LET lt == IndexOf(s, "<")
      rest == SubSeq(s, lt + 1, Len(s))
      gt == IndexOf(rest, ">")
  IN IF lt = 0 THEN s
     ELSE IF gt = 0 THEN s
     ELSE SubSeq(s, 1, lt - 1) \o SubSeq(rest, gt + 1, Len(rest))

\* description.replace(/<[^>]*>/g, ''): every '<' up to the next '>' is removed
RECURSIVE StripTags(_)
StripTags(s) ==
  LET lt == IndexOf(s, "<")
      rest == SubSeq(s, lt + 1, Len(s))
      gt == IndexOf(rest, ">")
  IN IF lt = 0 THEN s
     ELSE IF gt = 0 THEN s
     ELSE SubSeq(s, 1, lt - 1) \o StripTags(SubSeq(rest, gt + 1, Len(rest)))

\* typeof v === 'string' ? v : JSON.stringify(v)
StringOrJson(v) ==
  IF IsStr(v) THEN v
  ELSE IF v.t = "undef" THEN Undef
  ELSE Str(JsonStringify(v))

\* new Date(v).toLocaleDateString(): the date v denotes in the format of the
\* host's locale, kept symbolic
LocaleDate(v) == Str("LocaleDate(" \o ToStr(v) \o ")")

\* the first outcome of a sequence that throws, or Ok of the results
FirstThrow(outs) ==
  IF \E i \in 1..Len(outs) : outs[i].throws
  THEN outs[CHOOSE i \in 1..Len(outs) :
              outs[i].throws /\ \A j \in 1..(i - 1) : ~outs[j].throws]
  ELSE Ok(Arr([i \in 1..Len(outs) |-> outs[i].result]))

\* (v || []).map(f), defined below: kind names the callback f
RECURSIVE MapItems(_, _, _, _, _)

\* the issue summary of search_jira_issues, list_project_issues and
\* list_sprint_issues
IssueItem(it, base) ==
  LET fields == Prop(it, "fields")
  IN Ok(Obj(<< KV("key", Prop(it, "key")),
               KV("summary", OptProp(fields, "summary")),
               KV("status", OptProp(OptProp(fields, "status"), "name")),
               KV("assignee", OptProp(OptProp(fields, "assignee"), "displayName")),
               KV("priority", OptProp(OptProp(fields, "priority"), "name")),
               KV("type", OptProp(OptProp(fields, "issuetype"), "name")),
               KV("updated", OptProp(fields, "updated")),
               KV("url", Str(ToStr(base) \o "/browse/" \o ToStr(Prop(it, "key")))) >>))

ProjectItem(p) ==
  Ok(Obj(<< KV("id", Prop(p, "id")), KV("key", Prop(p, "key")), KV("name", Prop(p, "name")),
            KV("lead", OptProp(Prop(p, "lead"), "displayName")),
            KV("projectType", Prop(p, "projectTypeKey")) >>))

CommentItem(c) ==
  Ok(Obj(<< KV("id", Prop(c, "id")),
            KV("author", OptProp(Prop(c, "author"), "displayName")),
            KV("created", Prop(c, "created")), KV("updated", Prop(c, "updated")),
            KV("body", StringOrJson(Prop(c, "body"))) >>))

BoardItem(b) ==
  Ok(Obj(<< KV("id", Prop(b, "id")), KV("name", Prop(b, "name")),
            KV("type", Prop(b, "type")), KV("location", Prop(b, "location")) >>))

SprintItem(sp) ==
  Ok(Obj(<< KV("id", Prop(sp, "id")), KV("name", Prop(sp, "name")),
            KV("state", Prop(sp, "state")), KV("startDate", Prop(sp, "startDate")),
            KV("endDate", Prop(sp, "endDate")),
            KV("completeDate", Prop(sp, "completeDate")) >>))

StatusName(st) == Ok(Prop(st, "name"))

\* { issueType: t.name, statuses: (t.statuses || []).map(s => s.name) }
IssueTypeItem(ty) ==
  LET names == MapItems(Prop(ty, "statuses"), "status", Undef, "name",
                        "(t.statuses || []).map")
  IN IF names.throws THEN names
     ELSE Ok(Obj(<< KV("issueType", Prop(ty, "name")), KV("statuses", names.result) >>))

\* the callback of each map: base is the value of JIRA_URL
MapCallback(kind, item, base) ==
  CASE kind = "issue" -> IssueItem(item, base)
    [] kind = "project" -> ProjectItem(item)
    [] kind = "comment" -> CommentItem(item)
    [] kind = "board" -> BoardItem(item)
    [] kind = "sprint" -> SprintItem(item)
    [] kind = "status" -> StatusName(item)
    [] kind = "issueType" -> IssueTypeItem(item)

\* (v || []).map(f), where f reads first the property firstKey of its item;
\* expr is the source text of the callee
MapItems(v, kind, base, firstKey, expr) ==
  LET list == OrElse(v, Arr(<<>>))
  IN IF list.t # "arr" THEN Throw(expr \o " is not a function")
     ELSE FirstThrow([i \in 1..Len(list.a) |->
                        IF Nullish(list.a[i])
                        THEN Throw(TypeErrorRead(list.a[i], firstKey))
                        ELSE MapCallback(kind, list.a[i], base)])

\* total, startAt and maxResults of a page of n items
PageWindow(data, n) ==
  << KV("total", Coalesce(Prop(data, "total"), Num(n))),
     KV("startAt", Coalesce(Prop(data, "startAt"), Num(0))),
     KV("maxResults", Coalesce(Prop(data, "maxResults"), Num(n))) >>

\* `Found ${data.total ?? items.length} <what> (showing ${items.length}).`
FoundText(data, n, what) ==
  "Found " \o ToStr(Coalesce(Prop(data, "total"), Num(n))) \o " " \o what
    \o " (showing " \o IntToString(n) \o ")."

\* get_jira_issue, from `const issue = issueData` to the return
ReshapeIssue(issueData, base) ==
  LET fields == Prop(issueData, "fields")
      key == Prop(issueData, "key")
      summary == OrElse(Prop(fields, "summary"), Str("No summary"))
      description == OrElse(Prop(fields, "description"), Str("No description"))
      status == OrElse(OptProp(Prop(fields, "status"), "name"), Str("Unknown status"))
      assignee == OrElse(OptProp(Prop(fields, "assignee"), "displayName"), Str("Unassigned"))
      reporter ==
        OrElse(OptProp(Prop(fields, "reporter"), "displayName"), Str("Unknown reporter"))
      priority == OrElse(OptProp(Prop(fields, "priority"), "name"), Str("No priority"))
      issueType == OrElse(OptProp(Prop(fields, "issuetype"), "name"), Str("Unknown type"))
      created ==
        IF Truthy(Prop(fields, "created")) THEN LocaleDate(Prop(fields, "created"))
        ELSE Str("Unknown")
      updated ==
        IF Truthy(Prop(fields, "updated")) THEN LocaleDate(Prop(fields, "updated"))
        ELSE Str("Unknown")
      cleanDescription ==
        IF IsStr(description) THEN Str(Trim(StripTags(description.s)))
        ELSE Str(JsonStringify(description))
  IN IF Nullish(issueData) THEN Throw(TypeErrorRead(issueData, "fields"))
     ELSE IF Nullish(fields) THEN Throw(TypeErrorRead(fields, "summary"))
     ELSE Ok(SuccessResult(
            "**" \o ToStr(key) \o ": " \o ToStr(summary) \o "**\n\n"
              \o "**Status:** " \o ToStr(status) \o "\n"
              \o "**Type:** " \o ToStr(issueType) \o "\n"
              \o "**Priority:** " \o ToStr(priority) \o "\n"
              \o "**Assignee:** " \o ToStr(assignee) \o "\n"
              \o "**Reporter:** " \o ToStr(reporter) \o "\n"
              \o "**Created:** " \o ToStr(created) \o "\n"
              \o "**Updated:** " \o ToStr(updated) \o "\n\n"
              \o "**Description:**\n" \o ToStr(cleanDescription) \o "\n\n"
              \o "**Full Issue Data:** Available in structured content below.",
            Obj(<< KV("issueKey", key), KV("summary", summary),
                   KV("description", cleanDescription), KV("status", status),
                   KV("issueType", issueType), KV("priority", priority),
                   KV("assignee", assignee), KV("reporter", reporter),
                   KV("created", created), KV("updated", updated),
                   KV("url", Str(ToStr(base) \o "/browse/" \o ToStr(key))),
                   KV("fullData", issueData) >>)))

\* get_jira_project, from `const project = await response.json()` to the return
ReshapeProject(project, base) ==
  IF Nullish(project) THEN Throw(TypeErrorRead(project, "key"))
  ELSE Ok(SuccessResult(
         "Project " \o ToStr(Prop(project, "key")) \o ": " \o ToStr(Prop(project, "name")),
         Obj(<< KV("id", Prop(project, "id")), KV("key", Prop(project, "key")),
                KV("name", Prop(project, "name")),
                KV("url", Str(ToStr(base) \o "/jira/software/c/projects/"
                                \o ToStr(Prop(project, "key")))),
                KV("lead", Prop(project, "lead")),
                KV("components", Prop(project, "components")),
                KV("issueTypes", Prop(project, "issueTypes")),
                KV("raw", project) >>)))

\* get_project_statuses, from `const arr = await response.json()` to the return
ReshapeStatuses(args, arr) ==
  LET summary ==
        IF Nullish(arr) THEN Throw(TypeErrorRead(arr, "map"))
        ELSE IF arr.t # "arr" THEN Throw("arr.map is not a function")
        ELSE MapItems(arr, "issueType", Undef, "name", "arr.map")
  IN IF summary.throws THEN summary
     ELSE Ok(SuccessResult(
            "Found " \o IntToString(Len(summary.result.a)) \o " issue types with statuses.",
            Obj(<< KV("projectIdOrKey", Arg(args, "projectIdOrKey")),
                   KV("types", summary.result), KV("raw", arr) >>)))

\* the page tools, from `const data = await response.json()` to the return:
\* listKey is the property of data that holds the items, outKey the property
\* of structuredContent that holds their summaries, kind their callback, what
\* the noun of the text, before and after the properties around the page window
ReshapePage(data, listKey, outKey, kind, base, firstKey, what, before, after) ==
  LET items ==
        IF Nullish(data) THEN Throw(TypeErrorRead(data, listKey))
        ELSE MapItems(Prop(data, listKey), kind, base, firstKey,
                      "(data." \o listKey \o " || []).map")
  IN IF items.throws THEN items
     ELSE LET n == Len(items.result.a)
          IN Ok(SuccessResult(FoundText(data, n, what),
                  Obj(before \o PageWindow(data, n)
                        \o <<KV(outKey, items.result)>> \o after)))

\* the code of each handler between `await response.json()` and the return
Reshape(tool, args, data, base) ==
  LET raw == <<KV("raw", data)>>
  IN CASE tool = "get_jira_issue" -> ReshapeIssue(data, base)
       [] tool = "list_jira_projects" ->
            \* the structuredContent of list_jira_projects has no raw property
            ReshapePage(data, "values", "projects", "project", base, "id", "projects",
                        <<>>, <<>>)
       [] tool = "get_jira_project" -> ReshapeProject(data, base)
       [] tool = "get_project_statuses" -> ReshapeStatuses(args, data)
       [] tool = "search_jira_issues" ->
            ReshapePage(data, "issues", "issues", "issue", base, "key", "issues", <<>>, raw)
       [] tool = "list_project_issues" ->
            ReshapePage(data, "issues", "issues", "issue", base, "key",
                        "issues in " \o ToStr(Arg(args, "projectKey")), <<>>,
                        <<KV("projectKey", Arg(args, "projectKey"))>> \o raw)
       [] tool = "get_jira_issue_comments" ->
            ReshapePage(data, "comments", "comments", "comment", base, "id", "comments",
                        <<KV("issueIdOrKey", Arg(args, "issueIdOrKey"))>>, raw)
       [] tool = "list_boards" ->
            ReshapePage(data, "values", "boards", "board", base, "id", "boards", <<>>, raw)
       [] tool = "list_board_sprints" ->
            \* boardId sits between the page window and the sprints
            LET r == ReshapePage(data, "values", "sprints", "sprint", base, "id", "sprints",
                                 <<>>, raw)
            IN IF r.throws THEN r
               ELSE Ok(SuccessResult(r.result.content[1].text,
                         Obj(SubSeq(r.result.structuredContent.o, 1, 3)
                               \o <<KV("boardId", Arg(args, "boardId"))>>
                               \o SubSeq(r.result.structuredContent.o, 4, 5))))
       [] tool = "list_sprint_issues" ->
            ReshapePage(data, "issues", "issues", "issue", base, "key",
                        "issues in sprint " \o ToStr(Arg(args, "sprintId")),
                        <<KV("sprintId", Arg(args, "sprintId"))>>, raw)

\* ------------------------------------------------------------------------
\* Request headers (getJiraHeaders)
\* ------------------------------------------------------------------------

Base64Alphabet == "ABCDEFGHIJKLMNOPQRSTUVWXYZabcdefghijklmnopqrstuvwxyz0123456789+/"

Base64Digit(d) == CharAt(Base64Alphabet, d + 1)

\* the base64 text of a sequence of bytes
RECURSIVE Base64Bytes(_)
Base64Bytes(b) ==
  IF Len(b) = 0 THEN ""
  ELSE IF Len(b) = 1 THEN
    Base64Digit(b[1] \div 4) \o Base64Digit((b[1] % 4) * 16) \o "=="
  ELSE IF Len(b) = 2 THEN
    Base64Digit(b[1] \div 4) \o Base64Digit((b[1] % 4) * 16 + b[2] \div 16)
      \o Base64Digit((b[2] % 16) * 4) \o "="
  ELSE
    Base64Digit(b[1] \div 4) \o Base64Digit((b[1] % 4) * 16 + b[2] \div 16)
      \o Base64Digit((b[2] % 16) * 4 + b[3] \div 64) \o Base64Digit(b[3] % 64)
      \o Base64Bytes(SubSeq(b, 4, Len(b)))

\* Buffer.from(s).toString('base64') for a string of ASCII characters
Base64(s) == Base64Bytes([i \in 1..Len(s) |-> CharCode(CharAt(s, i))])

\* getJiraHeaders()
getJiraHeaders(email, token) ==
  [Authorization |-> "Basic " \o Base64(ToStr(email) \o ":" \o ToStr(token)),
   Accept |-> "application/json",
   ContentType |-> "application/json"]

\* ------------------------------------------------------------------------
\* Upstream responses
\* ------------------------------------------------------------------------

\* A response of the Jira server as fetch resolves it: status and statusText,
\* and what reading the body gives: readError is the message of the exception
\* response.text() and response.json() raise when the body cannot be read ("" when
\* it can), text the body, parseError the message of the SyntaxError
\* response.json() raises when the body is not JSON ("" when it is), data the
\* value it parses to.
JsonResponse(status, statusText, v) ==
  [status |-> status, statusText |-> statusText, readError |-> "",
   text |-> JsonStringify(v), parseError |-> "", data |-> v]

TextResponse(status, statusText, text, parseError) ==
  [status |-> status, statusText |-> statusText, readError |-> "",
   text |-> text, parseError |-> parseError, data |-> Null]

BrokenResponse(status, statusText, readError) ==
  [status |-> status, statusText |-> statusText, readError |-> readError,
   text |-> "", parseError |-> "", data |-> Null]

\* response.ok
IsOk(response) == response.status >= 200 /\ response.status <= 299

\* ------------------------------------------------------------------------
\* State
\* ------------------------------------------------------------------------

VARIABLES
  pc,              \* position of the top-level code of server.ts
  env,             \* process.env: a function from the names that are set to their values
  JIRA_URL,        \* the three constants read from process.env
  JIRA_EMAIL,
  JIRA_API_TOKEN,
  registry,        \* the names passed to mcp.registerTool so far, in order
  connected,       \* whether the transport is connected
  exitCode,        \* the code passed to process.exit, -1 while the process runs
  stderr,          \* the lines written with console.error
  calls,           \* the tool invocations in flight, one record per slot
  failedBefore,    \* whether an invocation has returned an error result to the host
  registry2,       \* the names passed to registerTool of the second McpServer (line 484)
  pc2              \* the position in the statements after the first mcp.connect call

vars ==
  << pc, env, JIRA_URL, JIRA_EMAIL, JIRA_API_TOKEN, registry, connected, exitCode,
     stderr, calls, failedBefore, registry2, pc2 >>

Slots == 1..MaxInFlight

NoRequest == GetRequest("", <<>>)
NoResponse == BrokenResponse(0, "", "")
NoResult == [content |-> <<>>]

\* a slot with no invocation
Idle ==
  [pc |-> "idle", tool |-> "", args |-> <<>>, request |-> NoRequest, sent |-> 0,
   fetchError |-> "", response |-> NoResponse, result |-> NoResult]

\* ------------------------------------------------------------------------
\* Inputs: the environments, .env files, invocations and upstream responses
\* ------------------------------------------------------------------------

EnvUrl == "https://jira.example"
EnvEmail == "me@example.com"
EnvToken == "tok"

\* the environments the process may be started in
InitEnvs ==
  { [JIRA_URL |-> EnvUrl, JIRA_EMAIL |-> EnvEmail, JIRA_API_TOKEN |-> EnvToken],
    [JIRA_URL |-> "", JIRA_EMAIL |-> EnvEmail, JIRA_API_TOKEN |-> EnvToken],
    [JIRA_URL |-> EnvUrl, JIRA_API_TOKEN |-> EnvToken],
    [JIRA_URL |-> EnvUrl, JIRA_EMAIL |-> EnvEmail, JIRA_API_TOKEN |-> ""],
    [PATH |-> "/usr/bin"] }

Unreadable == [ok |-> FALSE, content |-> ""]
File(content) == [ok |-> TRUE, content |-> content]

FullEnvFile ==
  "# Jira\nJIRA_URL=https://file.example\n\nJIRA_EMAIL=file@example.com\nJIRA_API_TOKEN=a=b\n"
PartialEnvFile == "JIRA_URL = https://file.example\n  JIRA_EMAIL=file@example.com  \nJIRA_API_TOKEN\n=x\nJIRA_API_TOKEN="

\* what reading each of the five candidate paths gives
FileSystems ==
  { <<Unreadable, Unreadable, Unreadable, Unreadable, Unreadable>>,
    <<File(FullEnvFile), Unreadable, Unreadable, Unreadable, Unreadable>>,
    <<Unreadable, Unreadable, File(PartialEnvFile), File(FullEnvFile), Unreadable>>,
    <<Unreadable, File(""), File(FullEnvFile), Unreadable, Unreadable>> }

\* an argument the caller supplies with the value v
With(k, v) == k :> v
\* an argument the caller may leave out, or supply with one of the values
Optional(k, values) == {<<>>} \cup {With(k, v) : v \in values}
\* an argument the caller supplies with one of the values
Required(k, values) == {With(k, v) : v \in values}

\* the pagination arguments: none, either, both
Paging ==
  { <<>>, With("startAt", Num(0)), With("maxResults", Num(25)),
    With("startAt", Num(20)) @@ With("maxResults", Num(100)) }

\* values no pagination schema accepts
BadPaging ==
  { With("startAt", Num(-1)), With("startAt", Frac(1)), With("startAt", Str("0")),
    With("maxResults", Num(0)), With("maxResults", Num(101)), With("maxResults", Frac(10)),
    With("maxResults", Null) }

\* the optional arguments of a tool besides the pagination: each alone with
\* an empty and a non-empty value, and all together with the pagination
Extras(tool) ==
  CASE tool = "list_jira_projects" ->
         { With("query", Str("")), With("query", Str("web app")),
           With("query", Str("web app")) @@ With("startAt", Num(0))
             @@ With("maxResults", Num(25)) }
    [] tool = "search_jira_issues" ->
         { With("fields", Str("")), With("fields", Str(" key, ,summary,")),
           With("fields", Str("key")) @@ With("startAt", Num(20)) }
    [] tool = "list_project_issues" ->
         { With("jqlTail", Str("")), With("jqlTail", Str("AND status=\"Done\"")),
           With("jqlTail", Str("ORDER BY key")) @@ With("maxResults", Num(1)) }
    [] tool = "list_boards" ->
         { With("type", Str("scrum")), With("projectKeyOrId", Str("")),
           With("projectKeyOrId", Str("PROJ")),
           With("type", Str("kanban")) @@ With("projectKeyOrId", Str("P&Q 1"))
             @@ With("startAt", Num(0)) @@ With("maxResults", Num(25)) }
    [] tool = "list_board_sprints" ->
         { With("state", Str("active")),
           With("state", Str("closed")) @@ With("startAt", Num(0))
             @@ With("maxResults", Num(25)) }
    [] tool = "list_sprint_issues" ->
         { With("jql", Str("")), With("jql", Str("a=b&c")),
           With("jql", Str("status=Done")) @@ With("startAt", Num(0))
             @@ With("maxResults", Num(25)) }
    [] OTHER -> {}

\* the values of the required argument of each tool
RequiredArgs(tool) ==
  CASE tool = "get_jira_issue" ->
         \* an argument the schema does not declare is dropped
         Required("issueKey", {Str("PROJ-1"), Str("A/B?x=1")})
           \cup {With("issueKey", Str("PROJ-2")) @@ With("verbose", Bool(TRUE))}
    [] tool = "get_jira_project" -> Required("projectIdOrKey", {Str("PROJ"), Str("a b/c")})
    [] tool = "get_project_statuses" -> Required("projectIdOrKey", {Str("PROJ")})
    [] tool = "search_jira_issues" -> Required("jql", {Str("status=\"Done\"")})
    [] tool = "list_project_issues" -> Required("projectKey", {Str("PROJ")})
    [] tool = "get_jira_issue_comments" -> Required("issueIdOrKey", {Str("PROJ-1")})
    [] tool = "list_board_sprints" -> Required("boardId", {Num(7)})
    [] tool = "list_sprint_issues" -> Required("sprintId", {Num(3)})
    [] OTHER -> {<<>>}

\* the arguments of the invocations of each tool that pass its schema
GoodArgs(tool) ==
  { a @@ b : a \in RequiredArgs(tool),
             b \in IF "startAt" \in DOMAIN InputSchema(tool)
                   THEN Paging \cup Extras(tool) ELSE {<<>>} }
  \cup (IF tool = "list_board_sprints" THEN {With("boardId", Num(-1))} ELSE {})

\* the one argument each tool requires by name, with a value it accepts
MinimalArgs(tool) ==
  CASE tool = "get_jira_issue" -> With("issueKey", Str("PROJ-1"))
    [] tool \in {"get_jira_project", "get_project_statuses"} ->
         With("projectIdOrKey", Str("PROJ"))
    [] tool = "search_jira_issues" -> With("jql", Str("project=PROJ"))
    [] tool = "list_project_issues" -> With("projectKey", Str("PROJ"))
    [] tool = "get_jira_issue_comments" -> With("issueIdOrKey", Str("PROJ-1"))
    [] tool = "list_board_sprints" -> With("boardId", Num(7))
    [] tool = "list_sprint_issues" -> With("sprintId", Num(3))
    [] OTHER -> <<>>

\* the arguments of invocations that violate the schema of the tool
BadArgs(tool) ==
  (IF "startAt" \in DOMAIN InputSchema(tool)
   THEN {b @@ MinimalArgs(tool) : b \in BadPaging} ELSE {})
  \cup (IF MinimalArgs(tool) # <<>>
        THEN { <<>>,
               [k \in DOMAIN MinimalArgs(tool) |->
                  IF IsStr(MinimalArgs(tool)[k]) THEN Num(1) ELSE Str("7")],
               [k \in DOMAIN MinimalArgs(tool) |->
                  IF IsStr(MinimalArgs(tool)[k]) THEN Null ELSE Frac(7)] }
        ELSE {})
  \cup (IF tool = "list_boards"
        THEN {With("type", Str("team")), With("type", Str("Scrum"))} ELSE {})
  \cup (IF tool = "list_board_sprints"
        THEN {With("state", Str("open")) @@ MinimalArgs(tool)} ELSE {})
  \cup (IF tool = "list_boards"
        THEN {With("type", Str("board")), With("type", Str("")),
              With("projectKeyOrId", Num(1))} ELSE {})
  \cup (IF tool = "list_board_sprints"
        THEN {With("state", Str("open")) @@ MinimalArgs(tool),
              With("state", Num(1)) @@ MinimalArgs(tool)} ELSE {})
  \cup (IF tool = "list_jira_projects" THEN {With("query", Num(1))} ELSE {})

\* the invocations the host may send
Calls ==
  UNION {{[tool |-> tool, args |-> a] : a \in GoodArgs(tool) \cup BadArgs(tool)} : tool \in Tools}

\* JSON bodies of the Jira server
NameOf(n) == Obj(<<KV("name", Str(n))>>)
PersonOf(n) == Obj(<<KV("displayName", Str(n))>>)

IssueJson(key, description) ==
  Obj(<< KV("id", Str("10002")), KV("key", Str(key)),
         KV("fields", Obj(<< KV("summary", Str("Fix login")),
                             KV("description", description),
                             KV("status", NameOf("Open")),
                             KV("assignee", Null),
                             KV("reporter", PersonOf("Ada")),
                             KV("issuetype", NameOf("Bug")),
                             KV("created", Str("2024-01-02T03:04:05.000+0000")) >>)) >>)

AdfDoc == Obj(<< KV("type", Str("doc")), KV("version", Num(1)), KV("content", Arr(<<>>)) >>)

IssuePageJson ==
  Obj(<< KV("total", Num(7)), KV("startAt", Num(0)), KV("maxResults", Num(50)),
         KV("issues", Arr(<< IssueJson("PROJ-1", Str("<p>Hello <b>world</b></p>")),
                             Obj(<<KV("key", Str("PROJ-2"))>>) >>)) >>)

ValuesPageJson ==
  Obj(<< KV("total", Num(0)), KV("isLast", Bool(TRUE)),
         KV("values", Arr(<< Obj(<< KV("id", Num(1)), KV("key", Str("PROJ")),
                                    KV("name", Str("Project")), KV("type", Str("scrum")),
                                    KV("state", Str("active")),
                                    KV("lead", PersonOf("Ada")) >>) >>)) >>)

CommentsJson ==
  Obj(<< KV("comments", Arr(<< Obj(<< KV("id", Str("1")), KV("author", PersonOf("Bo")),
                                      KV("body", Str("LGTM")) >>),
                               Obj(<< KV("id", Str("2")), KV("body", AdfDoc) >>) >>)) >>)

StatusesJson ==
  Arr(<< Obj(<< KV("name", Str("Bug")),
                KV("statuses", Arr(<<NameOf("Open"), NameOf("Done")>>)) >>),
         Obj(<< KV("name", Str("Task")) >>) >>)

ProjectJson ==
  Obj(<< KV("id", Str("10001")), KV("key", Str("PROJ")), KV("name", Str("Project")),
         KV("lead", PersonOf("Ada")) >>)

\* bodies with the answer each tool expects
GoodBodies(tool) ==
  CASE tool = "get_jira_issue" ->
         { IssueJson("PROJ-1", Str("<p>Hello <b>world</b></p>")),
           IssueJson("PROJ-1", AdfDoc), IssueJson("PROJ-1", Null),
           IssueJson("PROJ-1", Str("")),
           IssueJson("PROJ-1", Str(" 1 < 2 <i>or</i> 3 > 2\n")) }
    [] tool \in {"list_jira_projects", "list_boards", "list_board_sprints"} ->
         { ValuesPageJson }
    [] tool = "get_jira_project" -> { ProjectJson }
    [] tool = "get_project_statuses" -> { StatusesJson }
    [] tool \in {"search_jira_issues", "list_project_issues", "list_sprint_issues"} ->
         { IssuePageJson }
    [] tool = "get_jira_issue_comments" -> { CommentsJson }
    [] OTHER -> {}

\* well-formed JSON that lacks the shape a tool expects
OddBodies(tool) ==
  CASE tool = "get_jira_issue" -> { Null, Obj(<< KV("key", Str("PROJ-1")) >>), Str("ok") }
    [] tool = "get_jira_project" -> { Null, Arr(<<>>) }
    [] tool = "get_project_statuses" ->
         { Null, Obj(<<>>), Arr(<<>>), Arr(<<Null>>),
           Arr(<< Obj(<< KV("name", Str("Bug")), KV("statuses", Str("Open")) >>) >>),
           Arr(<< Obj(<< KV("name", Str("Bug")), KV("statuses", Arr(<<Null>>)) >>) >>) }
    [] OTHER ->
         { Null, Obj(<<>>),
           Obj(<< KV("values", Str("none")), KV("issues", Num(3)),
                  KV("comments", Obj(<<>>)) >>),
           Obj(<< KV("values", Arr(<<Null>>)), KV("issues", Arr(<<Obj(<<>>), Null>>)),
                  KV("comments", Arr(<<Null>>)) >>) }

ErrorJson == Obj(<<KV("errorMessages", Arr(<<Str("Issue does not exist")>>))>>)

\* the responses the Jira server may give to a request of a tool
Responses(tool) ==
  {JsonResponse(200, "OK", v) : v \in GoodBodies(tool) \cup OddBodies(tool)}
  \cup { TextResponse(204, "No Content", "", "Unexpected end of JSON input"),
         TextResponse(200, "OK", "<html>login</html>",
                      "Unexpected token < in JSON at position 0"),
         BrokenResponse(200, "OK", "terminated"),
         JsonResponse(404, "Not Found", ErrorJson),
         TextResponse(401, "Unauthorized", "", "Unexpected end of JSON input"),
         TextResponse(500, "Internal Server Error", "<html>oops</html>",
                      "Unexpected token < in JSON at position 0"),
         JsonResponse(300, "Multiple Choices", IssuePageJson),
         BrokenResponse(502, "Bad Gateway", "terminated") }

\* the messages of the exceptions fetch may raise
FetchErrors == {"fetch failed"}

\* ------------------------------------------------------------------------
\* Startup: the top-level code of server.ts
\* ------------------------------------------------------------------------

Init ==
  /\ pc = "start"
  /\ env \in InitEnvs
  /\ JIRA_URL = Undef
  /\ JIRA_EMAIL = Undef
  /\ JIRA_API_TOKEN = Undef
  /\ registry = <<>>
  /\ connected = FALSE
  /\ exitCode = -1
  /\ stderr = <<>>
  /\ calls = [i \in {1} |-> Idle]
  /\ failedBefore = FALSE
  /\ registry2 = <<>>
  /\ pc2 = "none"

\* LoadEnv with a missing file treated as fatal
LoadEnvFatal(paths) ==
  /\ pc = "start"
  /\ env' = LoadedEnv(env, paths)
  /\ stderr' = stderr \o LoadEnvLog(paths)
  /\ IF ReadFirst(paths) = ""
     THEN pc' = "exited" /\ exitCode' = 1
     ELSE pc' = "loaded" /\ exitCode' = exitCode
  /\ UNCHANGED << JIRA_URL, JIRA_EMAIL, JIRA_API_TOKEN, registry, connected, calls,
                  failedBefore, registry2, pc2 >>

\* loadEnvFile('/Users/imranbeg/mcp-get-server/.env')
LoadEnv(paths) ==
  /\ pc = "start"
  /\ env' = LoadedEnv(env, paths)
  /\ stderr' = stderr \o LoadEnvLog(paths)
  /\ pc' = "loaded"
  /\ UNCHANGED << JIRA_URL, JIRA_EMAIL, JIRA_API_TOKEN, registry, connected, exitCode,
                  calls, failedBefore, registry2, pc2 >>

\* ConfigMissing with && in place of ||
ConfigMissingAll(url, email, token) == ~Truthy(url) /\ ~Truthy(email) /\ ~Truthy(token)

\* `!JIRA_URL || !JIRA_EMAIL || !JIRA_API_TOKEN`
ConfigMissing(url, email, token) == ~Truthy(url) \/ ~Truthy(email) \/ ~Truthy(token)

\* what the configuration check writes before it exits
MissingLog ==
  << "Missing required Jira environment variables:",
     "- JIRA_URL: Your Jira instance URL (e.g., https://yourcompany.atlassian.net)",
     "- JIRA_EMAIL: Your Jira email address",
     "- JIRA_API_TOKEN: Your Jira API token" >>

\* the three constants are read, and the process exits when one is missing
CheckConfig ==
  /\ pc = "loaded"
  /\ JIRA_URL' = EnvGet(env, "JIRA_URL")
  /\ JIRA_EMAIL' = EnvGet(env, "JIRA_EMAIL")
  /\ JIRA_API_TOKEN' = EnvGet(env, "JIRA_API_TOKEN")
  /\ IF ConfigMissing(JIRA_URL', JIRA_EMAIL', JIRA_API_TOKEN')
     THEN /\ stderr' = stderr \o MissingLog
          /\ exitCode' = 1
          /\ pc' = "exited"
     ELSE /\ pc' = "registering"
          /\ UNCHANGED << stderr, exitCode >>
  /\ UNCHANGED << env, registry, connected, calls, failedBefore, registry2, pc2 >>

\* the next mcp.registerTool call
RegisterTool ==
  /\ pc = "registering"
  /\ Len(registry) < Len(ToolNames)
  /\ registry' = Append(registry, ToolNames[Len(registry) + 1])
  /\ UNCHANGED << pc, env, JIRA_URL, JIRA_EMAIL, JIRA_API_TOKEN, connected, exitCode,
                  stderr, calls, failedBefore, registry2, pc2 >>

\* mcp.connect(transport)
Connect ==
  /\ pc = "registering"
  /\ Len(registry) = Len(ToolNames)
  /\ pc' = "connecting"
  /\ UNCHANGED << env, JIRA_URL, JIRA_EMAIL, JIRA_API_TOKEN, registry, connected,
                  exitCode, stderr, calls, failedBefore, registry2, pc2 >>

\* the constants declared again at lines 467-469 and the second configuration
\* check (lines 471-477), which run before any promise callback does
CheckConfigAgain ==
  /\ pc = "connecting"
  /\ pc2 = "none"
  /\ IF ConfigMissing(EnvGet(env, "JIRA_URL"), EnvGet(env, "JIRA_EMAIL"),
                      EnvGet(env, "JIRA_API_TOKEN"))
     THEN /\ stderr' = stderr \o MissingLog
          /\ exitCode' = 1
          /\ pc' = "exited"
          /\ pc2' = pc2
     ELSE /\ pc2' = "checked"
          /\ UNCHANGED << pc, stderr, exitCode >>
  /\ UNCHANGED << env, JIRA_URL, JIRA_EMAIL, JIRA_API_TOKEN, registry, connected, calls,
                  failedBefore, registry2 >>

\* the registerTool call of line 502, on the McpServer constructed at line 484
RegisterToolAgain ==
  /\ pc = "connecting"
  /\ pc2 = "checked"
  /\ registry2 = <<>>
  /\ registry2' = Append(registry2, "get_jira_issue")
  /\ UNCHANGED << pc, env, JIRA_URL, JIRA_EMAIL, JIRA_API_TOKEN, registry, connected,
                  exitCode, stderr, calls, failedBefore, pc2 >>

\* the mcp.connect call of line 615
ConnectAgain ==
  /\ pc = "connecting"
  /\ pc2 = "checked"
  /\ registry2 # <<>>
  /\ pc2' = "connecting"
  /\ UNCHANGED << pc, env, JIRA_URL, JIRA_EMAIL, JIRA_API_TOKEN, registry, connected,
                  exitCode, stderr, calls, failedBefore, registry2 >>

\* the promise of mcp.connect resolves: the server serves invocations
ConnectResolve ==
  /\ pc = "connecting"
  /\ pc2 = "connecting"
  /\ connected' = TRUE
  /\ pc' = "serving"
  /\ UNCHANGED << env, JIRA_URL, JIRA_EMAIL, JIRA_API_TOKEN, registry, exitCode, stderr,
                  calls, failedBefore, registry2, pc2 >>

\* the promise of mcp.connect rejects: the catch callback exits
ConnectReject ==
  /\ pc = "connecting"
  /\ pc2 = "connecting"
  /\ stderr' = Append(stderr, "Failed to start MCP server:")
  /\ exitCode' = 1
  /\ pc' = "exited"
  /\ UNCHANGED << env, JIRA_URL, JIRA_EMAIL, JIRA_API_TOKEN, registry, connected, calls,
                  failedBefore, registry2, pc2 >>

\* ------------------------------------------------------------------------
\* Tool invocations
\* ------------------------------------------------------------------------

startupVars == << pc, env, JIRA_URL, JIRA_EMAIL, JIRA_API_TOKEN, registry, connected,
                  exitCode, stderr, registry2, pc2 >>

Registered(tool) == \E n \in 1..Len(registry) : registry[n] = tool

\* HandlerArgs with the arguments kept in one variable per tool, which the
\* latest invocation of the tool overwrites
HandlerArgsShared(i) ==
  IF \E j \in DOMAIN calls : j # i /\ calls[j].tool = calls[i].tool /\ calls[j].sent > 0
  THEN calls[CHOOSE j \in DOMAIN calls :
               j # i /\ calls[j].tool = calls[i].tool /\ calls[j].sent > 0].args
  ELSE calls[i].args

\* the variables of the closure of the handler running in slot i
HandlerArgs(i) == calls[i].args
HandlerResponse(i) == calls[i].response

\* The transport receives an invocation.  Arguments that violate the
\* inputSchema are answered with a schema error and the handler does not run;
\* otherwise the handler runs up to `await fetch(...)`.
Invoke(i, call) ==
  /\ pc = "serving"
  /\ calls[i].pc = "idle"
  /\ Registered(call.tool)
  /\ IF ValidArgs(call.tool, call.args)
     THEN calls' = [calls EXCEPT ![i] =
            [Idle EXCEPT !.pc = "await_fetch",
                         !.tool = call.tool,
                         !.args = ParsedArgs(call.tool, call.args),
                         !.request =
                           BuildRequest(call.tool, ParsedArgs(call.tool, call.args),
                                        JIRA_URL,
                                        getJiraHeaders(JIRA_EMAIL, JIRA_API_TOKEN)),
                         !.sent = 1]]
     ELSE calls' = [calls EXCEPT ![i] =
            [Idle EXCEPT !.pc = "rejected", !.tool = call.tool, !.args = call.args]]
  /\ UNCHANGED << startupVars, failedBefore >>

\* FetchResolve with one retry of a request that was answered with an error
FetchResolveRetry(i, response) ==
  /\ calls[i].pc = "await_fetch"
  /\ IF ~IsOk(response) /\ calls[i].sent < 2
     THEN calls' = [calls EXCEPT ![i].sent = @ + 1]
     ELSE calls' = [calls EXCEPT ![i].response = response,
                                 ![i].pc = IF IsOk(response) THEN "await_json"
                                           ELSE "await_text"]
  /\ UNCHANGED << startupVars, failedBefore >>

\* fetch resolves with the response of the Jira server
FetchResolve(i, response) ==
  /\ calls[i].pc = "await_fetch"
  /\ calls' = [calls EXCEPT ![i].response = response,
                            ![i].pc = IF IsOk(response) THEN "await_json" ELSE "await_text"]
  /\ UNCHANGED << startupVars, failedBefore >>

\* FetchReject without a catch block: the rejection ends the process
FetchRejectCrash(i, message) ==
  /\ calls[i].pc = "await_fetch"
  /\ pc' = "exited"
  /\ exitCode' = 1
  /\ stderr' = Append(stderr, message)
  /\ UNCHANGED << env, JIRA_URL, JIRA_EMAIL, JIRA_API_TOKEN, registry, connected, calls,
                  failedBefore, registry2, pc2 >>

\* fetch rejects: the catch block returns
FetchReject(i, message) ==
  /\ calls[i].pc = "await_fetch"
  /\ calls' = [calls EXCEPT ![i].fetchError = message,
                            ![i].result = CaughtResult(calls[i].tool, HandlerArgs(i), message),
                            ![i].pc = "done"]
  /\ UNCHANGED << startupVars, failedBefore >>

\* the result of the handler once `await response.text()` settles
AfterText(tool, args, response) ==
  IF response.readError # "" THEN CaughtResult(tool, args, response.readError)
  ELSE NotOkResult(tool, args, response.status, response.statusText, response.text)

\* AfterJson with the error of an earlier invocation kept in a variable of
\* the module and returned again
AfterJsonSticky(tool, args, response, base) ==
  IF failedBefore THEN CaughtResult(tool, args, "fetch failed")
  ELSE IF response.readError # "" THEN CaughtResult(tool, args, response.readError)
  ELSE IF response.parseError # "" THEN CaughtResult(tool, args, response.parseError)
  ELSE LET r == Reshape(tool, args, response.data, base)
       IN IF r.throws THEN CaughtResult(tool, args, r.message) ELSE r.result

\* the result of the handler once `await response.json()` settles
AfterJson(tool, args, response, base) ==
  IF response.readError # "" THEN CaughtResult(tool, args, response.readError)
  ELSE IF response.parseError # "" THEN CaughtResult(tool, args, response.parseError)
  ELSE LET r == Reshape(tool, args, response.data, base)
       IN IF r.throws THEN CaughtResult(tool, args, r.message) ELSE r.result

\* the `if (!response.ok)` branch: response.text() settles and the handler returns
ReadText(i) ==
  /\ calls[i].pc = "await_text"
  /\ calls' = [calls EXCEPT ![i].result =
                              AfterText(calls[i].tool, HandlerArgs(i), HandlerResponse(i)),
                            ![i].pc = "done"]
  /\ UNCHANGED << startupVars, failedBefore >>

\* ReadJson with the reshaping outside the try block
ReadJsonUncaught(i) ==
  /\ calls[i].pc = "await_json"
  /\ LET response == HandlerResponse(i)
         clean == response.readError = "" /\ response.parseError = ""
     IN IF clean /\ Reshape(calls[i].tool, HandlerArgs(i), response.data, JIRA_URL).throws
        THEN calls' = [calls EXCEPT ![i].pc = "fault"]
        ELSE calls' = [calls EXCEPT ![i].result =
                                      AfterJson(calls[i].tool, HandlerArgs(i), response,
                                                JIRA_URL),
                                    ![i].pc = "done"]
  /\ UNCHANGED << startupVars, failedBefore >>

\* response.json() settles and the handler returns
ReadJson(i) ==
  /\ calls[i].pc = "await_json"
  /\ calls' = [calls EXCEPT ![i].result =
                              AfterJson(calls[i].tool, HandlerArgs(i), HandlerResponse(i),
                                        JIRA_URL),
                            ![i].pc = "done"]
  /\ UNCHANGED << startupVars, failedBefore >>

\* isError of a result
IsError(result) == "isError" \in DOMAIN result /\ result.isError

\* the transport sends the answer to the host and the invocation is over
Return(i) ==
  /\ calls[i].pc \in {"done", "rejected"}
  /\ calls' = [calls EXCEPT ![i] = Idle]
  /\ failedBefore' = (failedBefore \/ (calls[i].pc = "done" /\ IsError(calls[i].result)))
  /\ UNCHANGED startupVars

Next ==
  \/ \E paths \in FileSystems : LoadEnv(paths)
  \/ CheckConfig
  \/ RegisterTool
  \/ Connect
  \/ CheckConfigAgain
  \/ RegisterToolAgain
  \/ ConnectAgain
  \/ ConnectResolve
  \/ ConnectReject
  \/ \E i \in DOMAIN calls, call \in Calls : Invoke(i, call)
  \/ \E i \in DOMAIN calls : \E response \in Responses(calls[i].tool) : FetchResolve(i, response)
  \/ \E i \in DOMAIN calls, message \in FetchErrors : FetchReject(i, message)
  \/ \E i \in DOMAIN calls : ReadText(i)
  \/ \E i \in DOMAIN calls : ReadJson(i)
  \/ \E i \in DOMAIN calls : Return(i)

Spec == Init /\ [][Next]_vars

\* ------------------------------------------------------------------------
\* Concurrent invocations: the server after a successful startup, with
\* MaxInFlight invocations in flight
\* ------------------------------------------------------------------------

\* the state CheckConfig, RegisterTool and ConnectResolve lead to from the
\* environment that sets the three variables, when there is no .env file
InitConc ==
  /\ pc = "serving"
  /\ env = [JIRA_URL |-> EnvUrl, JIRA_EMAIL |-> EnvEmail, JIRA_API_TOKEN |-> EnvToken]
  /\ JIRA_URL = Str(EnvUrl)
  /\ JIRA_EMAIL = Str(EnvEmail)
  /\ JIRA_API_TOKEN = Str(EnvToken)
  /\ registry = ToolNames
  /\ connected = TRUE
  /\ exitCode = -1
  /\ stderr = <<"Could not find .env file in any of the expected locations">>
  /\ calls = [i \in Slots |-> Idle]
  /\ failedBefore = FALSE
  /\ registry2 = <<"get_jira_issue">>
  /\ pc2 = "connecting"

\* invocations of one tool with different arguments, and of another tool
ConcCalls ==
  { [tool |-> "get_jira_issue", args |-> With("issueKey", Str("PROJ-1"))],
    [tool |-> "get_jira_issue", args |-> With("issueKey", Str("OTHER-9"))],
    [tool |-> "list_project_issues", args |-> With("projectKey", Str("WEB"))],
    \* an invocation the schema rejects
    [tool |-> "list_project_issues",
     args |-> With("projectKey", Str("WEB")) @@ With("maxResults", Num(0))] }

ConcResponses(tool) ==
  IF tool = "get_jira_issue"
  THEN { JsonResponse(200, "OK", IssueJson("PROJ-1", AdfDoc)),
         JsonResponse(404, "Not Found", ErrorJson) }
  ELSE { JsonResponse(200, "OK", IssuePageJson),
         BrokenResponse(502, "Bad Gateway", "terminated") }

NextConc ==
  \/ \E i \in DOMAIN calls, call \in ConcCalls : Invoke(i, call)
  \/ \E i \in DOMAIN calls :
       \E response \in ConcResponses(calls[i].tool) : FetchResolve(i, response)
  \/ \E i \in DOMAIN calls, message \in FetchErrors : FetchReject(i, message)
  \/ \E i \in DOMAIN calls : ReadText(i)
  \/ \E i \in DOMAIN calls : ReadJson(i)
  \/ \E i \in DOMAIN calls : Return(i)

SpecConc == InitConc /\ [][NextConc]_vars

\* ------------------------------------------------------------------------
\* Properties
\* ------------------------------------------------------------------------

\* the slots whose handler has returned
Done == {i \in DOMAIN calls : calls[i].pc = "done"}

\* the slots whose handler has run, at any position
Handled == {i \in DOMAIN calls : calls[i].pc \in {"await_fetch", "await_text", "await_json", "done"}}

\* the slots whose handler has received a response of the Jira server
Answered == {i \in DOMAIN calls : calls[i].pc \in {"await_text", "await_json", "done"}
                                    /\ calls[i].fetchError = ""}

HasStructured(r) == "structuredContent" \in DOMAIN r

\* the text of the one content item of a result
TextOf(r) == r.content[1].text

\* C1: a handler that has not returned has no result, and the one result it
\* returns is a sequence of text items with either isError = true, no
\* structuredContent and a diagnostic text that names the failure, or no
\* error flag and a structuredContent.
C1_ResultShape ==
  \A i \in DOMAIN calls :
    LET r == calls[i].result
    IN /\ i \notin Done => r = NoResult
       /\ i \in Done =>
            /\ Len(r.content) = 1
            /\ r.content[1].type = "text"
            /\ DOMAIN r \in {{"content", "isError"}, {"content", "structuredContent"}}
            /\ IsError(r) =>
                 /\ ~HasStructured(r)
                 /\ \/ StartsWith(TextOf(r), "Failed to ")
                    \/ StartsWith(TextOf(r), "Error ")
            /\ ~IsError(r) => HasStructured(r) /\ r.structuredContent.t = "obj"

\* C1 witness: list_sprint_issues has returned an error result for a 2xx
\* response, and it has no structuredContent
C1_Witness ==
  \E i \in Done :
    /\ calls[i].tool = "list_sprint_issues"
    /\ i \in Answered
    /\ IsOk(calls[i].response)
    /\ IsError(calls[i].result)
    /\ ~HasStructured(calls[i].result)

\* C2 as claimed: for every response that is not 2xx the result is an error
\* without structuredContent whose text carries the status code, the status
\* text and the body.
C2_Original ==
  \A i \in Done \cap Answered :
    ~IsOk(calls[i].response) =>
      /\ IsError(calls[i].result)
      /\ ~HasStructured(calls[i].result)
      /\ Contains(TextOf(calls[i].result), IntToString(calls[i].response.status))
      /\ Contains(TextOf(calls[i].result), calls[i].response.statusText)
      /\ Contains(TextOf(calls[i].result), calls[i].response.text)

\* C2: for every response that is not 2xx the handler never awaits the JSON
\* of the body and the result is an error without structuredContent, with one
\* text item; when the body can be read the text ends with the status code,
\* the status text and, on a new line, the body; when reading the body raises,
\* the text carries the message of that exception instead.
C2_NotOk ==
  \A i \in Answered :
    ~IsOk(calls[i].response) =>
      /\ calls[i].pc # "await_json"
      /\ i \in Done =>
           LET r == calls[i].result
               response == calls[i].response
               tailText == IntToString(response.status) \o " " \o response.statusText
                             \o "\n" \o response.text
               text == TextOf(r)
           IN /\ IsError(r)
              /\ ~HasStructured(r)
              /\ Len(r.content) = 1
              /\ response.readError = "" =>
                   /\ StartsWith(text, "Failed to ")
                   /\ Len(text) >= Len(tailText)
                   /\ SubSeq(text, Len(text) - Len(tailText) + 1, Len(text)) = tailText
              /\ response.readError # "" =>
                   /\ StartsWith(text, "Error ")
                   /\ Contains(text, response.readError)

\* C2 witness: a 404 with a JSON body has been turned into an error result
C2_Witness ==
  \E i \in Done \cap Answered :
    /\ calls[i].response.status = 404
    /\ calls[i].response.readError = ""
    /\ IsError(calls[i].result)
    /\ Contains(TextOf(calls[i].result), "404 Not Found\n{\"errorMessages\"")

\* the positions of an invocation
Positions == {"idle", "rejected", "await_fetch", "await_text", "await_json", "done"}

\* the message of the exception raised in a handler that has returned: by
\* fetch, by reading the body, by parsing it, or by reshaping a body that
\* lacks the fields the code reads; "" when nothing was raised
RaisedIn(i) ==
  LET response == calls[i].response
      data == response.data
  IN IF calls[i].fetchError # "" THEN calls[i].fetchError
     ELSE IF response.readError # "" THEN response.readError
     ELSE IF ~IsOk(response) THEN ""
     ELSE IF response.parseError # "" THEN response.parseError
     ELSE IF Nullish(data) THEN "Cannot read properties of null"
     ELSE IF calls[i].tool = "get_jira_issue" /\ Nullish(Prop(data, "fields"))
       THEN "Cannot read properties of undefined (reading 'summary')"
     ELSE IF calls[i].tool = "get_project_statuses" /\ data.t # "arr"
       THEN "arr.map is not a function"
     ELSE IF calls[i].tool \in {"list_jira_projects", "list_boards", "list_board_sprints"}
             /\ Truthy(Prop(data, "values")) /\ Prop(data, "values").t # "arr"
       THEN "(data.values || []).map is not a function"
     ELSE ""

\* C3: no invocation leaves the positions of the handler (none ends in a fault
\* outside the try block), and a handler in which an exception was raised
\* returns an error result whose text carries the message of the exception.
C3_ExceptionsCaught ==
  \A i \in DOMAIN calls :
    /\ calls[i].pc \in Positions
    /\ (i \in Done /\ RaisedIn(i) # "") =>
         /\ IsError(calls[i].result)
         /\ StartsWith(TextOf(calls[i].result), "Error ")
         /\ Contains(TextOf(calls[i].result), RaisedIn(i))

\* C3 witness: get_jira_issue has returned an error result for a 200 whose
\* issue has no fields
C3_Witness ==
  \E i \in Done \cap Answered :
    /\ calls[i].tool = "get_jira_issue"
    /\ calls[i].response.status = 200
    /\ calls[i].response.parseError = ""
    /\ calls[i].response.readError = ""
    /\ calls[i].response.data.t = "obj"
    /\ Nullish(Prop(calls[i].response.data, "fields"))
    /\ IsError(calls[i].result)

RequiredVars == {"JIRA_URL", "JIRA_EMAIL", "JIRA_API_TOKEN"}

\* a variable that is unset or empty in the environment
Unset(k) == k \notin DOMAIN env \/ env[k] = ""

\* C4: once the environment is seeded and the check has run, a required
\* variable that is unset or empty means that the process has exited with a
\* non-zero code, no tool is registered, the transport is not connected and no
\* invocation has been taken.
C4_NoStartWithoutConfig ==
  (pc \notin {"start", "loaded"} /\ \E k \in RequiredVars : Unset(k)) =>
    /\ pc = "exited"
    /\ exitCode > 0
    /\ registry = <<>>
    /\ ~connected
    /\ \A i \in DOMAIN calls : calls[i] = Idle

\* C4 witness: the process has exited because JIRA_EMAIL alone is missing
C4_Witness ==
  /\ pc = "exited"
  /\ exitCode = 1
  /\ Unset("JIRA_EMAIL")
  /\ ~Unset("JIRA_URL")
  /\ ~Unset("JIRA_API_TOKEN")

\* C5: an invocation has sent at most one request, none before its handler
\* runs; the count of requests of a slot rises only when an idle slot takes an
\* invocation, so no step after a response, an exception or the result sends
\* another request.
C5_AtMostOneRequest ==
  /\ [](\A i \in DOMAIN calls :
          /\ calls[i].sent <= 1
          /\ calls[i].pc \in {"idle", "rejected"} => calls[i].sent = 0)
  /\ [][\A i \in DOMAIN calls :
          /\ calls'[i].sent > calls[i].sent =>
               calls[i].pc = "idle" /\ calls'[i].pc = "await_fetch"
          /\ (calls[i].pc # "idle" /\ calls'[i].pc # "idle") =>
               calls'[i].request = calls[i].request]_vars

\* C5 witness: a handler has returned an error result for a response that is
\* not 2xx, having sent one request
C5_Witness ==
  \E i \in Done \cap Answered :
    /\ ~IsOk(calls[i].response)
    /\ IsError(calls[i].result)
    /\ calls[i].sent = 1
    /\ calls[i].request.url # ""

\* the result of a handler that runs alone with the given arguments, when
\* fetch raises fetchError or resolves with response
RunAlone(tool, args, fetchError, response, base) ==
  IF fetchError # "" THEN CaughtResult(tool, args, fetchError)
  ELSE IF IsOk(response) THEN AfterJson(tool, args, response, base)
  ELSE AfterText(tool, args, response)

\* the value of the argument that names the issue or the project of a call
SubjectOf(i) ==
  IF calls[i].tool = "get_jira_issue" THEN calls[i].args.issueKey.s
  ELSE calls[i].args.projectKey.s

\* C6: whatever the interleaving, the request of an invocation is the one its
\* own arguments give, its result is the result of running alone with its own
\* arguments and the outcome of its own request, and an error result does not
\* name the issue or project of another invocation in flight.
C6_Independent ==
  \A i \in Handled :
    /\ calls[i].request =
         BuildRequest(calls[i].tool, calls[i].args, Str(EnvUrl),
                      getJiraHeaders(Str(EnvEmail), Str(EnvToken)))
    /\ i \in Done =>
         /\ calls[i].result =
              RunAlone(calls[i].tool, calls[i].args, calls[i].fetchError,
                       calls[i].response, Str(EnvUrl))
         /\ \A j \in Handled :
              (IsError(calls[i].result) /\ SubjectOf(j) # SubjectOf(i)) =>
                ~Contains(TextOf(calls[i].result), SubjectOf(j))

\* C6 witness: two invocations of get_jira_issue with different keys have
\* both returned, one with an error for a 404 and one with the issue
C6_Witness ==
  \E i \in Done, j \in Done :
    /\ i # j
    /\ calls[i].tool = "get_jira_issue"
    /\ calls[j].tool = "get_jira_issue"
    /\ calls[i].args # calls[j].args
    /\ calls[i].response.status = 404
    /\ IsError(calls[i].result)
    /\ calls[j].response.status = 200
    /\ HasStructured(calls[j].result)

\* C7: a serving process stays serving, with the transport connected, every
\* tool registered and no exit code, whatever its invocations meet; and the
\* exit code is set only by the configuration check and by the failure of
\* mcp.connect, never by a step of an invocation.
C7_ServerSurvives ==
  /\ [][pc = "serving" =>
          (pc' = "serving" /\ exitCode' = -1 /\ connected' /\ registry' = registry)]_vars
  /\ [][exitCode' # exitCode => pc \in {"loaded", "connecting"}]_vars
  /\ [](pc = "serving" => (connected /\ exitCode = -1 /\ registry = ToolNames))

\* C7 witness: after an invocation has returned an error result, the serving
\* process has answered a further invocation with a structuredContent
C7_Witness ==
  /\ pc = "serving"
  /\ exitCode = -1
  /\ failedBefore
  /\ \E i \in Done : HasStructured(calls[i].result) /\ ~IsError(calls[i].result)

\* a non-negative integer number
IsNat(v) == v.t = "num" /\ v.int /\ v.n >= 0

\* the name and the type of the argument each tool requires
RequiredName(tool) ==
  CASE tool = "get_jira_issue" -> "issueKey"
    [] tool \in {"get_jira_project", "get_project_statuses"} -> "projectIdOrKey"
    [] tool = "search_jira_issues" -> "jql"
    [] tool = "list_project_issues" -> "projectKey"
    [] tool = "get_jira_issue_comments" -> "issueIdOrKey"
    [] tool = "list_board_sprints" -> "boardId"
    [] tool = "list_sprint_issues" -> "sprintId"
    [] OTHER -> ""

PaginatedTools ==
  {"list_jira_projects", "search_jira_issues", "list_project_issues",
   "get_jira_issue_comments", "list_boards", "list_board_sprints", "list_sprint_issues"}

\* the optional string arguments of each tool
OptionalStrings(tool) ==
  CASE tool = "list_jira_projects" -> {"query"}
    [] tool = "search_jira_issues" -> {"fields"}
    [] tool = "list_project_issues" -> {"jqlTail"}
    [] tool = "list_boards" -> {"projectKeyOrId"}
    [] tool = "list_sprint_issues" -> {"jql"}
    [] OTHER -> {}

\* the ways the arguments of an invocation violate the declared schema
Violates(tool, args) ==
  \/ /\ tool \in PaginatedTools
     /\ "startAt" \in DOMAIN args
     /\ ~IsNat(args.startAt)
  \/ /\ tool \in PaginatedTools
     /\ "maxResults" \in DOMAIN args
     /\ ~(IsNat(args.maxResults) /\ args.maxResults.n \in 1..100)
  \/ /\ tool = "list_boards"
     /\ "type" \in DOMAIN args
     /\ args.type \notin {Str("scrum"), Str("kanban")}
  \/ /\ tool = "list_board_sprints"
     /\ "state" \in DOMAIN args
     /\ args.state \notin {Str("active"), Str("future"), Str("closed")}
  \/ /\ RequiredName(tool) # ""
     /\ RequiredName(tool) \notin DOMAIN args
  \/ /\ RequiredName(tool) \in DOMAIN args
     /\ IF RequiredName(tool) \in {"boardId", "sprintId"}
        THEN ~(args[RequiredName(tool)].t = "num" /\ args[RequiredName(tool)].int)
        ELSE args[RequiredName(tool)].t # "str"
  \/ \E k \in OptionalStrings(tool) \cap DOMAIN args : args[k].t # "str"

\* C8: an invocation whose arguments violate the schema of its tool is
\* rejected: its handler is at no position, it has sent no request and built
\* none, it has no response and no result, and its only step is the answer of
\* the transport; every invocation whose handler runs or that has sent a
\* request has arguments that do not violate the schema.
C8_RejectedBeforeHandler ==
  /\ [](\A i \in DOMAIN calls :
          /\ calls[i].pc = "rejected" =>
               /\ Violates(calls[i].tool, calls[i].args)
               /\ calls[i].sent = 0
               /\ calls[i].request = NoRequest
               /\ calls[i].response = NoResponse
               /\ calls[i].result = NoResult
          /\ (i \in Handled \/ calls[i].sent > 0) =>
               ~Violates(calls[i].tool, calls[i].args))
  /\ [][\A i \in DOMAIN calls :
          calls[i].pc = "rejected" => calls'[i].pc \in {"rejected", "idle"}]_vars

\* C8 witness: an invocation with startAt = -1 has been rejected
C8_Witness ==
  \E i \in DOMAIN calls :
    /\ calls[i].pc = "rejected"
    /\ "startAt" \in DOMAIN calls[i].args
    /\ calls[i].args.startAt = Num(-1)
    /\ calls[i].sent = 0

\* the character of an ASCII code
CharOfCode(n) ==
  CASE n = 9 -> "\t"
    [] n = 10 -> "\n"
    [] n = 13 -> "\r"
    [] n \in 32..95 -> CharAt(AsciiLow, n - 31)
    [] n \in 97..126 -> CharAt(AsciiHigh, n - 96)
    [] OTHER -> "?"

HexValue(c) == IndexOf("0123456789ABCDEF", c) - 1

\* the reading of an application/x-www-form-urlencoded name or value by the
\* server that receives the request
RECURSIVE FormDecode(_)
FormDecode(s) ==
  IF Len(s) = 0 THEN ""
  ELSE IF CharAt(s, 1) = "+" THEN " " \o FormDecode(SubSeq(s, 2, Len(s)))
  ELSE IF CharAt(s, 1) = "%" /\ Len(s) >= 3
       THEN CharOfCode(16 * HexValue(CharAt(s, 2)) + HexValue(CharAt(s, 3)))
              \o FormDecode(SubSeq(s, 4, Len(s)))
  ELSE CharAt(s, 1) \o FormDecode(SubSeq(s, 2, Len(s)))

\* the part of a URL after its first '?'
QueryString(url) ==
  IF IndexOf(url, "?") = 0 THEN "" ELSE SubSeq(url, IndexOf(url, "?") + 1, Len(url))

\* the name-value pairs the server reads from the query string of a URL
QueryPairs(url) ==
  IF QueryString(url) = "" THEN <<>>
  ELSE LET parts == Split(QueryString(url), "&")
       IN [n \in 1..Len(parts) |->
             LET kv == Split(parts[n], "=")
             IN <<FormDecode(kv[1]), FormDecode(Join(Tail(kv), "="))>>]

\* the values the query string of a URL gives to a name, in order
ParamValues(url, k) ==
  LET pairs == QueryPairs(url)
      RECURSIVE Pick(_)
      Pick(n) == IF n > Len(pairs) THEN <<>>
                 ELSE (IF pairs[n][1] = k THEN <<pairs[n][2]>> ELSE <<>>) \o Pick(n + 1)
  IN Pick(1)

HasParam(url, k) == ParamValues(url, k) # <<>>

\* whether a request asks the server for the value v of the pagination
\* parameter k: in the query string of a GET, in the JSON body of a POST
AsksFor(request, k, v) ==
  IF request.method = "GET" THEN ParamValues(request.url, k) = <<v>>
  ELSE Contains(request.body, "\"" \o k \o "\":" \o v \o ",")

\* whether a request names the pagination parameter k at all
Names(request, k) ==
  IF request.method = "GET" THEN HasParam(request.url, k)
  ELSE Contains(request.body, "\"" \o k \o "\":")

\* the invocations of paginated tools that supply neither startAt nor maxResults
Unpaged ==
  {i \in Handled : /\ calls[i].tool \in PaginatedTools
                   /\ "startAt" \notin DOMAIN calls[i].args
                   /\ "maxResults" \notin DOMAIN calls[i].args}

\* C9 as stated: every invocation of a paginated tool that supplies neither
\* startAt nor maxResults issues a request that asks for startAt=0 and
\* maxResults=50.
C9_Original ==
  \A i \in Unpaged :
    /\ AsksFor(calls[i].request, "startAt", "0")
    /\ AsksFor(calls[i].request, "maxResults", "50")

\* C9 amended: of the invocations that supply neither startAt nor maxResults,
\* those of search_jira_issues and list_project_issues post a body that asks
\* for startAt 0 and maxResults 50, and those of the five GET tools issue a
\* request that names neither parameter.
C9_Defaults ==
  \A i \in Unpaged :
    IF calls[i].tool \in {"search_jira_issues", "list_project_issues"}
    THEN /\ calls[i].request.method = "POST"
         /\ AsksFor(calls[i].request, "startAt", "0")
         /\ AsksFor(calls[i].request, "maxResults", "50")
    ELSE /\ calls[i].request.method = "GET"
         /\ ~Names(calls[i].request, "startAt")
         /\ ~Names(calls[i].request, "maxResults")

\* C9 witness: search_jira_issues has been invoked with neither argument and
\* has posted a body with startAt 0 and maxResults 50
C9_Witness ==
  \E i \in Unpaged :
    /\ calls[i].tool = "search_jira_issues"
    /\ Contains(calls[i].request.body, "\"startAt\":0,\"maxResults\":50,")

\* the GET tools with optional query arguments, and those arguments
QueryTools ==
  {"list_jira_projects", "get_jira_issue_comments", "list_boards", "list_board_sprints",
   "list_sprint_issues"}

QueryArgs(tool) ==
  {"startAt", "maxResults"}
    \cup (CASE tool = "list_jira_projects" -> {"query"}
            [] tool = "list_boards" -> {"type", "projectKeyOrId"}
            [] tool = "list_board_sprints" -> {"state"}
            [] tool = "list_sprint_issues" -> {"jql"}
            [] OTHER -> {})

\* the text of a supplied argument
Supplied(v) == IF v.t = "num" THEN IntToString(v.n) ELSE v.s

\* C10 as stated: each optional query parameter is in the URL exactly when
\* the caller supplied the argument, with the supplied value, and the URL has
\* no '?' when none is supplied.
C10_Original ==
  \A i \in Handled :
    calls[i].tool \in QueryTools =>
      /\ \A k \in QueryArgs(calls[i].tool) :
           /\ HasParam(calls[i].request.url, k) <=> k \in DOMAIN calls[i].args
           /\ k \in DOMAIN calls[i].args =>
                ParamValues(calls[i].request.url, k) = <<Supplied(calls[i].args[k])>>
      /\ (QueryArgs(calls[i].tool) \cap DOMAIN calls[i].args = {}) =>
           ~Contains(calls[i].request.url, "?")

\* the optional query arguments an invocation supplied with a value that is
\* not the empty string
NonEmptyArgs(i) ==
  {k \in QueryArgs(calls[i].tool) \cap DOMAIN calls[i].args : calls[i].args[k] # Str("")}

\* C10 amended: each optional query parameter is in the URL exactly when the
\* caller supplied the argument with a value other than the empty string,
\* once and with the supplied value (a supplied startAt of 0 is sent); the
\* query string names nothing else; and the URL has no '?' when no argument
\* is supplied with such a value.
C10_QueryParams ==
  \A i \in Handled :
    calls[i].tool \in QueryTools =>
      /\ \A k \in QueryArgs(calls[i].tool) :
           /\ HasParam(calls[i].request.url, k) <=> k \in NonEmptyArgs(i)
           /\ k \in NonEmptyArgs(i) =>
                ParamValues(calls[i].request.url, k) = <<Supplied(calls[i].args[k])>>
      /\ \A n \in 1..Len(QueryPairs(calls[i].request.url)) :
           QueryPairs(calls[i].request.url)[n][1] \in NonEmptyArgs(i)
      /\ (NonEmptyArgs(i) = {}) <=> ~Contains(calls[i].request.url, "?")

\* C10 witness: list_boards has been invoked with a projectKeyOrId that
\* needs encoding and with startAt 0, and both are in the query string
C10_Witness ==
  \E i \in Handled :
    /\ calls[i].tool = "list_boards"
    /\ "startAt" \in DOMAIN calls[i].args
    /\ calls[i].args.startAt = Num(0)
    /\ "projectKeyOrId" \in DOMAIN calls[i].args
    /\ calls[i].args.projectKeyOrId = Str("P&Q 1")
    /\ Contains(calls[i].request.url, "projectKeyOrId=P%26Q+1&startAt=0")

\* the character a JSON escape \c stands for
JsonUnescapeChar(c) ==
  CASE c = "n" -> "\n"
    [] c = "r" -> "\r"
    [] c = "t" -> "\t"
    [] OTHER -> c

\* the text of the JSON string literal whose first character is at i
RECURSIVE JsonReadString(_, _)
JsonReadString(s, i) ==
  IF i > Len(s) \/ CharAt(s, i) = "\"" THEN ""
  ELSE IF CharAt(s, i) = "\\"
       THEN JsonUnescapeChar(CharAt(s, i + 1)) \o JsonReadString(s, i + 2)
  ELSE CharAt(s, i) \o JsonReadString(s, i + 1)

\* the index of the quote that closes the JSON string literal whose first
\* character is at i
RECURSIVE JsonStringEnd(_, _)
JsonStringEnd(s, i) ==
  IF i > Len(s) \/ CharAt(s, i) = "\"" THEN i
  ELSE IF CharAt(s, i) = "\\" THEN JsonStringEnd(s, i + 2)
  ELSE JsonStringEnd(s, i + 1)

\* the strings of the JSON array of strings whose first element, or closing
\* bracket, is at i
RECURSIVE JsonReadStrings(_, _)
JsonReadStrings(s, i) ==
  IF i > Len(s) \/ CharAt(s, i) = "]" THEN <<>>
  ELSE IF CharAt(s, i) = "," THEN JsonReadStrings(s, i + 1)
  ELSE <<JsonReadString(s, i + 1)>> \o JsonReadStrings(s, JsonStringEnd(s, i + 1) + 1)

\* whether the text p is in s at index i
At(s, i, p) == SubSeq(s, i, i + Len(p) - 1) = p

\* the reading of the JSON body of a search by the server that receives it:
\* the members jql, startAt, maxResults and fields, and whether the body is
\* an object of exactly these four members in this order
ParseSearchBody(body) ==
  LET jEnd == JsonStringEnd(body, 9)
      a0 == jEnd + 12
      aEnd == IndexFrom(body, ",", a0)
      m0 == aEnd + 14
      mEnd == IndexFrom(body, ",", m0)
      f0 == mEnd + 11
  IN [ok |-> /\ At(body, 1, "{\"jql\":\"")
             /\ At(body, jEnd, "\",\"startAt\":")
             /\ aEnd > 0
             /\ At(body, aEnd, ",\"maxResults\":")
             /\ mEnd > 0
             /\ At(body, mEnd, ",\"fields\":[")
             /\ At(body, Len(body) - 1, "]}"),
      jql |-> JsonReadString(body, 9),
      startAt |-> SubSeq(body, a0, aEnd - 1),
      maxResults |-> SubSeq(body, m0, mEnd - 1),
      fields |-> JsonReadStrings(body, f0)]

\* the invocations of list_project_issues whose handler has run
ProjectCalls == {i \in Handled : calls[i].tool = "list_project_issues"}

\* C11 as stated: list_project_issues posts a search whose JQL is
\* "project=<projectKey>" when jqlTail is not supplied, and that followed by
\* one space and the jqlTail when jqlTail is supplied.
C11_Original ==
  \A i \in ProjectCalls :
    /\ calls[i].request.method = "POST"
    /\ ParseSearchBody(calls[i].request.body).ok
    /\ ParseSearchBody(calls[i].request.body).jql =
         IF "jqlTail" \in DOMAIN calls[i].args
         THEN "project=" \o calls[i].args.projectKey.s \o " " \o calls[i].args.jqlTail.s
         ELSE "project=" \o calls[i].args.projectKey.s

\* C11 amended: the JQL is "project=<projectKey>" when jqlTail is not
\* supplied or is the empty string, and that followed by one space and the
\* jqlTail verbatim when jqlTail is supplied and not empty; the request is a
\* POST to <JIRA_URL>/rest/api/3/search.
C11_ProjectJql ==
  \A i \in ProjectCalls :
    /\ calls[i].request.method = "POST"
    /\ calls[i].request.url = ToStr(JIRA_URL) \o "/rest/api/3/search"
    /\ ParseSearchBody(calls[i].request.body).ok
    /\ ParseSearchBody(calls[i].request.body).jql =
         IF "jqlTail" \in DOMAIN calls[i].args /\ calls[i].args.jqlTail.s # ""
         THEN "project=" \o calls[i].args.projectKey.s \o " " \o calls[i].args.jqlTail.s
         ELSE "project=" \o calls[i].args.projectKey.s

\* C11 witness: list_project_issues has been invoked with a jqlTail that
\* holds quotes, and the JQL the server reads ends with it
C11_Witness ==
  \E i \in ProjectCalls :
    /\ "jqlTail" \in DOMAIN calls[i].args
    /\ calls[i].args.jqlTail = Str("AND status=\"Done\"")
    /\ ParseSearchBody(calls[i].request.body).jql = "project=PROJ AND status=\"Done\""

\* C12 as stated: loadEnvFile leaves every variable that is in the process
\* environment before the call, whatever its value, with the value it had.
C12_Original ==
  [][pc = "start" =>
       \A k \in DOMAIN env : k \in DOMAIN env' /\ env'[k] = env[k]]_vars

\* loadEnvFile has reported that it found no file
NoFileFound ==
  /\ Len(stderr) > 0
  /\ stderr[1] = "Could not find .env file in any of the expected locations"

\* C13: when loadEnvFile finds no file it returns with the environment as it
\* was, with no exit code, and the required-variable check is the next step;
\* afterwards the process has exited without registering a tool exactly when
\* one of the three variables is unset or empty in that environment.
C13_MissingFileNotFatal ==
  /\ [][(pc = "start" /\ NoFileFound') =>
          (env' = env /\ pc' = "loaded" /\ exitCode' = -1)]_vars
  /\ []((NoFileFound /\ pc \notin {"start", "loaded"}) =>
          ((pc = "exited" /\ registry = <<>>)
             <=> ConfigMissing(EnvGet(env, "JIRA_URL"), EnvGet(env, "JIRA_EMAIL"),
                               EnvGet(env, "JIRA_API_TOKEN"))))

\* C13 witness: no file was found and the process, started with the three
\* variables in its environment, serves
C13_Witness ==
  /\ NoFileFound
  /\ pc = "serving"
  /\ exitCode = -1
  /\ env = [JIRA_URL |-> EnvUrl, JIRA_EMAIL |-> EnvEmail, JIRA_API_TOKEN |-> EnvToken]

\* every name passed to a registerTool call so far, in the order of the calls
AllRegistered == registry \o registry2

\* how many registerTool calls named the tool
TimesRegistered(tool) ==
  Cardinality({n \in 1..Len(AllRegistered) : AllRegistered[n] = tool})

\* C14 as stated: on a successful startup the registerTool calls name exactly
\* the ten catalog tools, each once, and no registerTool call follows a call
\* of mcp.connect.
C14_Original ==
  /\ [](pc = "serving" =>
          /\ \A tool \in Tools : TimesRegistered(tool) = 1
          /\ Len(AllRegistered) = Len(ToolNames))
  /\ [][(pc = "connecting" \/ pc = "serving") =>
          (registry' = registry /\ registry2' = registry2)]_vars

\* two invocations of one tool with the same arguments that received the
\* same response
SameCall(i, j) ==
  /\ calls[i].tool = calls[j].tool
  /\ calls[i].args = calls[j].args
  /\ calls[i].fetchError = ""
  /\ calls[j].fetchError = ""
  /\ calls[i].response = calls[j].response

NamedOnStderr(k) == \E n \in 1..Len(stderr) : Contains(stderr[n], k)

\* C16 as stated: when the process has exited for missing configuration, the
\* lines on the error stream name exactly the required variables that are
\* unset or empty, and none that is set.
C16_Original ==
  (pc = "exited" /\ registry = <<>>) =>
    \A k \in RequiredVars : NamedOnStderr(k) <=> Unset(k)

\* the text s without its tags, read from the left: a '<' that a '>' follows
\* is dropped with everything up to that '>', any other character is kept
RECURSIVE WithoutTags(_)
WithoutTags(s) ==
  IF Len(s) = 0 THEN ""
  ELSE IF CharAt(s, 1) = "<" /\ IndexFrom(s, ">", 2) > 0
       THEN WithoutTags(SubSeq(s, IndexFrom(s, ">", 2) + 1, Len(s)))
  ELSE CharAt(s, 1) \o WithoutTags(SubSeq(s, 2, Len(s)))

\* the invocations of get_jira_issue that have returned a structuredContent
IssueResults ==
  {i \in Done : calls[i].tool = "get_jira_issue" /\ HasStructured(calls[i].result)}

\* the description of the issue in the response of an invocation
DescriptionOf(i) == Prop(Prop(calls[i].response.data, "fields"), "description")

\* structuredContent.description of the result of an invocation
CleanedOf(i) == Prop(calls[i].result.structuredContent, "description")

\* whether the text summary of the result shows the description as text
ShowsDescription(i, text) ==
  Contains(TextOf(calls[i].result),
           "**Description:**\n" \o text \o "\n\n**Full Issue Data:**")

\* C17 as stated: a string description is returned without its tags and
\* trimmed, any other description as its JSON serialisation, and the text
\* summary shows the same text.
C17_Original ==
  \A i \in IssueResults :
    LET expected == IF IsStr(DescriptionOf(i))
                    THEN Trim(WithoutTags(DescriptionOf(i).s))
                    ELSE JsonStringify(DescriptionOf(i))
    IN CleanedOf(i) = Str(expected) /\ ShowsDescription(i, expected)

\* C17 amended: a description that is absent, null, false, 0 or the empty
\* string is returned as "No description"; any other string without its tags
\* and trimmed; any other value as its JSON serialisation; and the text
\* summary shows the same text.
C17_Description ==
  \A i \in IssueResults :
    LET expected == IF ~Truthy(DescriptionOf(i)) THEN "No description"
                    ELSE IF IsStr(DescriptionOf(i))
                    THEN Trim(WithoutTags(DescriptionOf(i).s))
                    ELSE JsonStringify(DescriptionOf(i))
    IN CleanedOf(i) = Str(expected) /\ ShowsDescription(i, expected)

\* C17 witness: an issue whose description is "<p>Hello <b>world</b></p>" has
\* been returned with the description "Hello world"
C17_Witness ==
  \E i \in IssueResults :
    /\ DescriptionOf(i) = Str("<p>Hello <b>world</b></p>")
    /\ CleanedOf(i) = Str("Hello world")
    /\ ShowsDescription(i, "Hello world")

\* the tools that put an argument into the path of the URL, the argument,
\* and the endpoint template before and after it
PathTools ==
  {"get_jira_issue", "get_jira_project", "get_project_statuses", "get_jira_issue_comments"}

PathBefore(tool) ==
  CASE tool = "get_jira_issue" -> "/rest/api/3/issue/"
    [] tool = "get_jira_issue_comments" -> "/rest/api/3/issue/"
    [] OTHER -> "/rest/api/3/project/"

PathAfter(tool) ==
  CASE tool = "get_project_statuses" -> "/statuses"
    [] tool = "get_jira_issue_comments" -> "/comment"
    [] OTHER -> ""

\* the reading of a percent-encoded path segment by the server
RECURSIVE PercentDecode(_)
PercentDecode(s) ==
  IF Len(s) = 0 THEN ""
  ELSE IF CharAt(s, 1) = "%" /\ Len(s) >= 3
       THEN CharOfCode(16 * HexValue(CharAt(s, 2)) + HexValue(CharAt(s, 3)))
              \o PercentDecode(SubSeq(s, 4, Len(s)))
  ELSE CharAt(s, 1) \o PercentDecode(SubSeq(s, 2, Len(s)))

\* the URL of a request without its query string
PathOf(url) == IF IndexOf(url, "?") = 0 THEN url ELSE SubSeq(url, 1, IndexOf(url, "?") - 1)

\* the part of the path of the request of slot i between the two parts of
\* the endpoint template of its tool
SegmentOf(i) ==
  LET path == PathOf(calls[i].request.url)
      from == Len(ToStr(JIRA_URL)) + Len(PathBefore(calls[i].tool)) + 1
  IN SubSeq(path, from, Len(path) - Len(PathAfter(calls[i].tool)))

\* C18 as stated: the request of every tool that puts an argument into the
\* path targets the endpoint template of the tool under the base URL, with
\* the argument as one percent-encoded segment: the query string names no
\* parameter but the pagination of get_jira_issue_comments, and between the
\* parts of the template there is one segment, without '/', that decodes to
\* the argument.
C18_Original ==
  \A i \in Handled :
    calls[i].tool \in PathTools =>
      LET url == calls[i].request.url
          path == PathOf(url)
          after == PathAfter(calls[i].tool)
      IN /\ \A n \in 1..Len(QueryPairs(url)) :
              /\ calls[i].tool = "get_jira_issue_comments"
              /\ QueryPairs(url)[n][1] \in {"startAt", "maxResults"}
         /\ ~Contains(url, "#")
         /\ StartsWith(path, ToStr(JIRA_URL) \o PathBefore(calls[i].tool))
         /\ SubSeq(path, Len(path) - Len(after) + 1, Len(path)) = after
         /\ ~Contains(SegmentOf(i), "/")
         /\ PercentDecode(SegmentOf(i)) = calls[i].args[RequiredName(calls[i].tool)].s

\* the entries of a comma-separated list in their order, each without the
\* white space around it, the empty ones left out
RECURSIVE Entries(_)
Entries(s) ==
  LET comma == IndexOf(s, ",")
      first == Trim(IF comma = 0 THEN s ELSE SubSeq(s, 1, comma - 1))
      rest == IF comma = 0 THEN <<>> ELSE Entries(SubSeq(s, comma + 1, Len(s)))
  IN IF first = "" THEN rest ELSE <<first>> \o rest

\* the invocations of search_jira_issues whose handler has run
SearchCalls == {i \in Handled : calls[i].tool = "search_jira_issues"}

\* the text of the number the body of slot i gives for the pagination
\* argument k when the caller supplies it, and d when not
PageValue(i, k, d) ==
  IF k \in DOMAIN calls[i].args THEN IntToString(calls[i].args[k].n) ELSE d

\* C19 as stated: the body of search_jira_issues has the default list of
\* fields when fields is not supplied and the trimmed non-empty entries of
\* the argument when it is supplied, the jql verbatim, and startAt and
\* maxResults as supplied or 0 and 50.
C19_Original ==
  \A i \in SearchCalls :
    LET body == ParseSearchBody(calls[i].request.body)
    IN /\ body.ok
       /\ body.jql = calls[i].args.jql.s
       /\ body.startAt = PageValue(i, "startAt", "0")
       /\ body.maxResults = PageValue(i, "maxResults", "50")
       /\ body.fields =
            IF "fields" \in DOMAIN calls[i].args THEN Entries(calls[i].args.fields.s)
            ELSE <<"key", "summary", "status", "assignee", "priority", "issuetype",
                   "updated">>

\* C19 amended: the body has the default list of fields when fields is not
\* supplied or is the empty string, and the trimmed non-empty entries of the
\* argument, in their order, when it is supplied and not empty; the jql is
\* verbatim, and startAt and maxResults are as supplied or 0 and 50.
C19_SearchBody ==
  \A i \in SearchCalls :
    LET body == ParseSearchBody(calls[i].request.body)
    IN /\ calls[i].request.method = "POST"
       /\ body.ok
       /\ body.jql = calls[i].args.jql.s
       /\ body.startAt = PageValue(i, "startAt", "0")
       /\ body.maxResults = PageValue(i, "maxResults", "50")
       /\ body.fields =
            IF "fields" \in DOMAIN calls[i].args /\ calls[i].args.fields.s # ""
            THEN Entries(calls[i].args.fields.s)
            ELSE <<"key", "summary", "status", "assignee", "priority", "issuetype",
                   "updated">>

\* C19 witness: search_jira_issues has been invoked with fields
\* " key, ,summary," and has posted the fields key and summary
C19_Witness ==
  \E i \in SearchCalls :
    /\ "fields" \in DOMAIN calls[i].args
    /\ calls[i].args.fields = Str(" key, ,summary,")
    /\ ParseSearchBody(calls[i].request.body).fields = <<"key", "summary">>
    /\ ParseSearchBody(calls[i].request.body).jql = "status=\"Done\""

====
